---- MODULE Spec2Model ----
(***************************************************************************)
(* RedClouds ERP chatbot: the /chat request handler (backend/app/main.py), *)
(* the conversation store it keeps in memory and in SQL Server, and the    *)
(* query pipeline of ERPChatbot (backend/app/rag.py).                      *)
(*                                                                         *)
(* Text is a sequence of one-character strings.  Time is in whole seconds. *)
(* Distances are in hundredths (0.8 is 80).                                *)
(***************************************************************************)
EXTENDS Integers, Sequences, FiniteSets, TLC

VARIABLES
    now,                  \* the wall clock, in seconds (time.time / datetime.now / GETDATE)
    ticks,                \* how often the clock has advanced
    faults,               \* how many storage statements have failed
    started,              \* how many requests (calls of query, when it runs alone) have begun
    active_conversations, \* main.py: conversation_id -> ConversationState
    conversations,        \* table conversations: conversation_id -> row
    chat_history,         \* table chat_history: the rows, in insertion order
    query_cache,          \* ERPChatbot.query_cache: cache_key -> response dict
    req,                  \* per request coroutine: its position and its locals
    served,               \* cache_key -> what the latest call of query on it returned and invoked
    swept,                \* ids that a sweep has removed from active_conversations
    created,              \* the conversation ids generated so far, in order
    call                  \* a function of rag.py applied on its own: arguments and value

vars == <<now, ticks, faults, started, active_conversations, conversations,
          chat_history, query_cache, req, served, swept, created, call>>

(* ------------------------------ bounds -------------------------------- *)

MaxRequests == 2
MaxTicks == 1
MaxFaults == 1

Procs == {"p1", "p2"}

\* the coroutine that serves the requests when they come one after the other
Server == {"p1"}

(* ------------------------- program constants -------------------------- *)

conversation_timeout == 1800
IdPrefixLen == 8
VectorCutoff == 80
n_results == 5
LabelExcerptLen == 100
ContentExcerptLen == 300

(* ------------------------------- text --------------------------------- *)

Min(a, b) == IF a < b THEN a ELSE b

Take(s, n) == SubSeq(s, 1, Min(n, Len(s)))

Drop(s, n) == SubSeq(s, n + 1, Len(s))

UpperCase == <<"A", "B", "C", "D", "E", "F", "G", "H", "I", "J", "K", "L", "M",
               "N", "O", "P", "Q", "R", "S", "T", "U", "V", "W", "X", "Y", "Z">>

LowerCase == <<"a", "b", "c", "d", "e", "f", "g", "h", "i", "j", "k", "l", "m",
               "n", "o", "p", "q", "r", "s", "t", "u", "v", "w", "x", "y", "z">>

ToLower ==
    [c \in {UpperCase[i] : i \in 1..26} |-> LowerCase[CHOOSE i \in 1..26 : UpperCase[i] = c]]

LowerChar(c) == IF c \in DOMAIN ToLower THEN ToLower[c] ELSE c

\* str.lower()
Lower(s) == [i \in 1..Len(s) |-> LowerChar(s[i])]

Whitespace == {" ", "\n", "\t", "\r"}

RECURSIVE LStrip(_)
LStrip(s) == IF s # <<>> /\ s[1] \in Whitespace THEN LStrip(Tail(s)) ELSE s

RECURSIVE RStrip(_)
RStrip(s) ==
    IF s # <<>> /\ s[Len(s)] \in Whitespace THEN RStrip(SubSeq(s, 1, Len(s) - 1)) ELSE s

\* str.strip()
Strip(s) == RStrip(LStrip(s))

\* sub at position i of s
MatchAt(s, i, sub) ==
    /\ i >= 1
    /\ i + Len(sub) - 1 <= Len(s)
    /\ SubSeq(s, i, i + Len(sub) - 1) = sub

\* sub in s
Contains(s, sub) == \E i \in 1..(Len(s) + 1) : MatchAt(s, i, sub)

RECURSIVE Concat(_)
Concat(ss) == IF ss = <<>> THEN <<>> ELSE Head(ss) \o Concat(Tail(ss))

RECURSIVE Join(_, _)
Join(sep, ss) ==
    IF ss = <<>> THEN <<>>
    ELSE IF Len(ss) = 1 THEN ss[1]
    ELSE ss[1] \o sep \o Join(sep, Tail(ss))

\* how many characters of the set cs stand at s[i], s[i+1], ...
RECURSIVE Run(_, _, _)
Run(s, i, cs) == IF i <= Len(s) /\ s[i] \in cs THEN 1 + Run(s, i + 1, cs) ELSE 0

\* str.replace(pat, rep)
RECURSIVE ReplaceAll(_, _, _)
ReplaceAll(s, pat, rep) ==
    IF s = <<>> THEN <<>>
    ELSE IF MatchAt(s, 1, pat) THEN rep \o ReplaceAll(Drop(s, Len(pat)), pat, rep)
    ELSE <<Head(s)>> \o ReplaceAll(Tail(s), pat, rep)

\* str.split(sep), with the piece being read in cur
RECURSIVE SplitFrom(_, _, _)
SplitFrom(s, sep, cur) ==
    IF s = <<>> THEN <<cur>>
    ELSE IF MatchAt(s, 1, sep) THEN <<cur>> \o SplitFrom(Drop(s, Len(sep)), sep, <<>>)
    ELSE SplitFrom(Tail(s), sep, Append(cur, Head(s)))

Split(s, sep) == SplitFrom(s, sep, <<>>)

\* the two characters backslash, n that rag.py writes as '\\n'
BackslashN == <<"\\", "n">>

(* ------------------------- settings (config.py) ---------------------- *)

greeting_message ==
    <<"Hello! I'm RedClouds AI Assistant. I'm here to help with any questions about our ERP solutions and services. How can I assist you today?">>

fallback_message ==
    <<"I'm sorry, I couldn't find specific information about that in our documentation. Would you like me to connect you with a human support agent?">>

(* ------------------------------ the data ------------------------------ *)

\* Python's None, where a text is expected
PyNone == <<"None">>

\* dict.get(key, default)
Get(d, key, default) == IF key \in DOMAIN d THEN d[key] ELSE default

Customer1 == <<"c", "u", "s", "t", "o", "m", "e", "r", "1">>
Customer2 == <<"c", "u", "s", "t", "o", "m", "e", "r", "2">>

Users == {Customer1, Customer2}

QHello == <<"H", "e", "l", "l", "o">>
QStock == <<"s", "t", "o", "c", "k", "?">>

Questions == {QHello, QStock}

Faqs == <<"f", "a", "q", "s">>

DocStock ==
    [content |-> <<"s", "t", "o", "c", "k", " ", "l", "e", "d", "g", "e", "r">>,
     metadata |-> [source |-> Faqs,
                   Question |-> <<"t", "r", "a", "c", "k", " ", "s", "t", "o", "c", "k">>]]

DocTax ==
    [content |-> <<"t", "a", "x", " ", "s", "e", "t", "u", "p">>,
     metadata |-> [source |-> Faqs]]

DocBins ==
    [content |-> <<"b", "i", "n", "s">>,
     metadata |-> [Question |-> <<"b", "i", "n", "s">>]]

\* what collection.get(include=['documents', 'metadatas']) returns
Collection == <<DocStock, DocTax, DocBins>>

Hit(doc, dist) == [content |-> doc.content, metadata |-> doc.metadata, distance |-> dist]

\* The document index is outside the program: what one request can get from
\* embed_query + collection.query (ok = FALSE is a raise of one of them) and from
\* collection.get (scan_ok = FALSE is its raise).
IndexOutcomes ==
    { [ok |-> FALSE, scan_ok |-> TRUE, vector_results |-> <<>>, all_chroma_data |-> Collection],
      [ok |-> TRUE, scan_ok |-> TRUE, vector_results |-> <<>>, all_chroma_data |-> Collection],
      [ok |-> TRUE, scan_ok |-> TRUE, vector_results |-> <<Hit(DocStock, 30)>>,
       all_chroma_data |-> Collection],
      [ok |-> TRUE, scan_ok |-> TRUE,
       vector_results |-> <<Hit(DocStock, 30), Hit(DocTax, 85), Hit(DocBins, 50)>>,
       all_chroma_data |-> Collection] }

(* --------------------- rag.py: greeting detection --------------------- *)

greetings ==
    << <<"h", "i">>,
       <<"h", "e", "l", "l", "o">>,
       <<"h", "e", "y">>,
       <<"g", "o", "o", "d", " ", "m", "o", "r", "n", "i", "n", "g">>,
       <<"g", "o", "o", "d", " ", "a", "f", "t", "e", "r", "n", "o", "o", "n">>,
       <<"g", "o", "o", "d", " ", "e", "v", "e", "n", "i", "n", "g">>,
       <<"g", "r", "e", "e", "t", "i", "n", "g", "s">> >>

\* the greeting test without the lower-casing of the question
_is_greeting_cased(question) ==
    \E g \in 1..Len(greetings) : Contains(Strip(question), greetings[g])

_is_greeting(question) ==
    \E g \in 1..Len(greetings) : Contains(Strip(Lower(question)), greetings[g])

(* ------------------------ rag.py: retrieval --------------------------- *)

\* re.findall(r'\\w+', text): a backslash followed by one or more letters w
RECURSIVE FindTokens(_, _)
FindTokens(s, i) ==
    IF i > Len(s) THEN {}
    ELSE IF s[i] = "\\" /\ Run(s, i + 1, {"w"}) > 0
         THEN {SubSeq(s, i, i + Run(s, i + 1, {"w"}))} \cup FindTokens(s, i + 1 + Run(s, i + 1, {"w"}))
         ELSE FindTokens(s, i + 1)

Keywords(text) == FindTokens(Lower(text), 1)

\* sorted(docs, key=distance): stable
RECURSIVE InsertByDistance(_, _)
InsertByDistance(sorted, d) ==
    IF sorted = <<>> THEN <<d>>
    ELSE IF d.distance < Head(sorted).distance THEN <<d>> \o sorted
    ELSE <<Head(sorted)>> \o InsertByDistance(Tail(sorted), d)

\* the documents left in the order they were gathered
SortByDistance_unsorted(docs) == docs

RECURSIVE SortByDistance(_)
SortByDistance(docs) ==
    IF docs = <<>> THEN <<>>
    ELSE InsertByDistance(SortByDistance(SubSeq(docs, 1, Len(docs) - 1)), docs[Len(docs)])

\* the scan of _keyword_search, from document i on, with the matches so far
RECURSIVE KeywordScan(_, _, _, _, _)
KeywordScan(all, i, question_keywords, max_results, keyword_docs) ==
    IF i > Len(all) THEN keyword_docs
    ELSE LET common == question_keywords \cap Keywords(all[i].content)
             score == (100 * Cardinality(common)) \div Cardinality(question_keywords)
             doc == [content |-> all[i].content, metadata |-> all[i].metadata,
                     distance |-> 100 - score, type |-> "keyword_search"]
         IN  IF common = {}
             THEN KeywordScan(all, i + 1, question_keywords, max_results, keyword_docs)
             ELSE IF Len(keyword_docs) + 1 >= max_results
                  THEN Append(keyword_docs, doc)
                  ELSE KeywordScan(all, i + 1, question_keywords, max_results,
                                   Append(keyword_docs, doc))

\* a raise of collection.get is caught in _keyword_search itself
_keyword_search(query, max_results, index) ==
    IF ~index.scan_ok THEN <<>>
    ELSE SortByDistance(KeywordScan(index.all_chroma_data, 1, Keywords(query),
                                    max_results, <<>>))

\* the filter that lets a neighbour at the cutoff itself through
RECURSIVE VectorFilter_inclusive(_)
VectorFilter_inclusive(results) ==
    IF results = <<>> THEN <<>>
    ELSE (IF Head(results).distance <= VectorCutoff
          THEN << [content |-> Head(results).content, metadata |-> Head(results).metadata,
                   distance |-> Head(results).distance, type |-> "vector_search"] >>
          ELSE <<>>) \o VectorFilter_inclusive(Tail(results))

RECURSIVE VectorFilter(_)
VectorFilter(results) ==
    IF results = <<>> THEN <<>>
    ELSE (IF Head(results).distance < VectorCutoff
          THEN << [content |-> Head(results).content, metadata |-> Head(results).metadata,
                   distance |-> Head(results).distance, type |-> "vector_search"] >>
          ELSE <<>>) \o VectorFilter(Tail(results))

DocKey(doc) == <<doc.content, Get(doc.metadata, "source", PyNone)>>

\* the merge that keeps the entry it saw first, whatever the distances
RECURSIVE Unique_first(_, _)
Unique_first(docs, unique_docs) ==
    IF docs = <<>> THEN unique_docs
    ELSE LET doc == Head(docs)
             at == {i \in 1..Len(unique_docs) : DocKey(unique_docs[i]) = DocKey(doc)}
         IN  IF at = {}
             THEN Unique_first(Tail(docs), Append(unique_docs, doc))
             ELSE Unique_first(Tail(docs), unique_docs)

\* unique_docs, as the list of its values in insertion order
RECURSIVE Unique(_, _)
Unique(docs, unique_docs) ==
    IF docs = <<>> THEN unique_docs
    ELSE LET doc == Head(docs)
             at == {i \in 1..Len(unique_docs) : DocKey(unique_docs[i]) = DocKey(doc)}
         IN  IF at = {}
             THEN Unique(Tail(docs), Append(unique_docs, doc))
             ELSE LET i == CHOOSE j \in at : TRUE
                  IN  IF doc.distance < unique_docs[i].distance
                      THEN Unique(Tail(docs), [unique_docs EXCEPT ![i] = doc])
                      ELSE Unique(Tail(docs), unique_docs)

\* metadata = None, which the index gives for a document stored without any
NoMetadata == [none |-> TRUE]

\* the try that goes on with a document whose metadata is None
RetrievalAttempt_lenient(question, limit, index) ==
    IF ~index.ok THEN [raised |-> TRUE, final_docs |-> <<>>]
    ELSE LET vector_docs == VectorFilter(index.vector_results)
             docs == IF Len(vector_docs) < limit
                     THEN vector_docs \o _keyword_search(question, limit - Len(vector_docs), index)
                     ELSE vector_docs
         IN  [raised |-> FALSE,
              final_docs |-> Take(SortByDistance(Unique(docs, <<>>)), limit)]

\* The try of _retrieve_relevant_documents: the list it returns, or raised = TRUE
\* when an exception leaves it: embed_query or collection.query raises, or
\* metadata.get is called on None (lines 156 and 173).
RetrievalAttempt(question, limit, index) ==
    IF ~index.ok THEN [raised |-> TRUE, final_docs |-> <<>>]
    ELSE LET vector_docs == VectorFilter(index.vector_results)
             docs == IF Len(vector_docs) < limit
                     THEN vector_docs \o _keyword_search(question, limit - Len(vector_docs), index)
                     ELSE vector_docs
         IN  IF \E i \in 1..Len(docs) : docs[i].metadata = NoMetadata
             THEN [raised |-> TRUE, final_docs |-> <<>>]
             ELSE [raised |-> FALSE,
                   final_docs |-> Take(SortByDistance(Unique(docs, <<>>)), limit)]

\* limit is the parameter n_results of the source
_retrieve_relevant_documents(question, limit, index) ==
    LET attempt == RetrievalAttempt(question, limit, index)
    IN  IF attempt.raised THEN <<>> ELSE attempt.final_docs

(* ------------------- rag.py: the generation service ------------------- *)

AnswerStock == <<"U", "s", "e", " ", "t", "h", "e", " ", "s", "t", "o", "c", "k", " ",
                 "l", "e", "d", "g", "e", "r", ".">>

AnswerUnstated == <<"I", "t", " ", "i", "s", " ", "n", "o", "t", " ", "e", "x", "p", "l",
                    "i", "c", "i", "t", "l", "y", " ", "s", "t", "a", "t", "e", "d", ".">>

NoTextApology ==
    <<"I apologize, the AI model did not provide a clear response. Please try again.">>

\* What the HTTP call of GeminiLLM.invoke can come back with: a transport error or
\* timeout, a non-2xx status, a 2xx body without candidate text, a 2xx body with text.
HttpOutcomes ==
    { [kind |-> "request_error"],
      [kind |-> "status_error"],
      [kind |-> "no_text"],
      [kind |-> "text", text |-> AnswerStock],
      [kind |-> "text", text |-> AnswerUnstated] }

\* GeminiLLM.invoke: ok = FALSE is the RuntimeError it raises
invoke(http) ==
    IF http.kind = "text" THEN [ok |-> TRUE, text |-> http.text]
    ELSE IF http.kind = "no_text" THEN [ok |-> TRUE, text |-> NoTextApology]
    ELSE [ok |-> FALSE, text |-> <<>>]

(* ------------------ rag.py: cleaning and extraction ------------------- *)

\* re.sub(r'\\*\\*\\s*\\*\\*', '', response): a run of backslashes, then any
\* letters s, then any backslashes
RECURSIVE RemoveEmphasis(_)
RemoveEmphasis(s) ==
    IF s = <<>> THEN <<>>
    ELSE IF Head(s) = "\\"
         THEN LET b1 == Run(s, 1, {"\\"})
                  s1 == Run(s, 1 + b1, {"s"})
                  b2 == Run(s, 1 + b1 + s1, {"\\"})
              IN  RemoveEmphasis(Drop(s, b1 + s1 + b2))
         ELSE <<Head(s)>> \o RemoveEmphasis(Tail(s))

\* the three characters of the mis-decoded bullet
Mojibake == <<"a-circumflex", "euro-sign", "cent-sign">>

help_phrases ==
    << <<"l", "e", "t", " ", "m", "e", " ", "k", "n", "o", "w">>,
       <<"a", "s", "s", "i", "s", "t", " ", "y", "o", "u", " ", "f", "u", "r", "t", "h", "e", "r">>,
       <<"a", "d", "d", "i", "t", "i", "o", "n", "a", "l", " ", "q", "u", "e", "s", "t", "i", "o", "n", "s">>,
       <<"h", "e", "l", "p", " ", "y", "o", "u">>,
       <<"s", "u", "p", "p", "o", "r", "t", " ", "y", "o", "u">>,
       <<"f", "e", "e", "l", " ", "f", "r", "e", "e">>,
       <<"c", "l", "a", "r", "i", "f", "i", "c", "a", "t", "i", "o", "n">> >>

ClosingLine ==
    BackslashN \o BackslashN \o
    <<"Please let me know if you need any further clarification or have additional questions.">>

RECURSIVE StrippedLines(_)
StrippedLines(lines) ==
    IF lines = <<>> THEN <<>>
    ELSE (IF Strip(Head(lines)) # <<>> THEN <<Strip(Head(lines))>> ELSE <<>>)
         \o StrippedLines(Tail(lines))

_clean_response(response) ==
    LET r1 == RemoveEmphasis(response)
        r2 == ReplaceAll(ReplaceAll(r1, Mojibake, <<"-">>),
                         <<" ", "-", " ">>, BackslashN \o <<"-", " ">>)
        r3 == Join(BackslashN, StrippedLines(Split(r2, BackslashN)))
        r4 == IF \E i \in 1..Len(help_phrases) : Contains(Lower(r3), help_phrases[i])
              THEN r3
              ELSE r3 \o ClosingLine
    IN  Strip(r4)

HeaderWords ==
    { <<"s", "u", "g", "g", "e", "s", "t", "e", "d", " ", "q", "u", "e", "s", "t", "i", "o", "n">>,
      <<"f", "o", "l", "l", "o", "w", "-", "u", "p", " ", "q", "u", "e", "s", "t", "i", "o", "n">> }

\* (?:Suggested|Follow-up) questions?: at position i of the lower-cased text:
\* the position after the colon, or 0
HeaderEnd(lt, i) ==
    IF \E h \in HeaderWords : MatchAt(lt, i, h)
    THEN LET j == i + 18
         IN  IF MatchAt(lt, j, <<"s", ":">>) THEN j + 2
             ELSE IF MatchAt(lt, j, <<":">>) THEN j + 1
             ELSE 0
    ELSE 0

LastBackslash(s) ==
    IF \E i \in 1..Len(s) : s[i] = "\\"
    THEN CHOOSE i \in 1..Len(s) : s[i] = "\\" /\ \A j \in (i + 1)..Len(s) : s[j] # "\\"
    ELSE 0

\* re.search of the pattern of _extract_suggested_questions starting at i, case
\* ignored: header, backslash, n+, then group 1 = ([\\d*] backslash s* .+ backslash n?)+ .
\* The span <<first, last>> of group 1, or <<0, 0>>.
ListSpanAt(text, lt, i) ==
    LET k == HeaderEnd(lt, i)
        r == Run(lt, k + 1, {"n"})
        m == k + 1 + r
        last == LastBackslash(text)
    IN  IF /\ k > 0
           /\ MatchAt(lt, k, <<"\\">>)
           /\ r >= 1
           /\ m + 1 <= Len(lt)
           /\ lt[m] \in {"\\", "d", "*"}
           /\ lt[m + 1] = "\\"
           /\ last >= m + 3
        THEN <<m, IF MatchAt(lt, last + 1, <<"n">>) THEN last + 1 ELSE last>>
        ELSE <<0, 0>>

ListSpanIn(text, lt) ==
    IF \E i \in 1..Len(text) : ListSpanAt(text, lt, i)[1] > 0
    THEN ListSpanAt(text, lt, CHOOSE i \in 1..Len(text) :
                                  /\ ListSpanAt(text, lt, i)[1] > 0
                                  /\ \A j \in 1..(i - 1) : ListSpanAt(text, lt, j)[1] = 0)
    ELSE <<0, 0>>

ListSpan(text) == ListSpanIn(text, Lower(text))

\* re.sub(r'^[\\-\\d\\*\\s.]+', '', line).strip() for each line, keeping those
\* that end in a question mark
RECURSIVE QuestionLines(_)
QuestionLines(lines) ==
    IF lines = <<>> THEN <<>>
    ELSE LET line == Head(lines)
             clean_line == Strip(Drop(line, Run(line, 1, {"\\", "d", "*", "s", "."})))
         IN  (IF clean_line # <<>> /\ clean_line[Len(clean_line)] = "?"
              THEN <<clean_line>> ELSE <<>>) \o QuestionLines(Tail(lines))

\* the extraction without the slice [:3]
_extract_suggested_questions_all(text) ==
    LET span == ListSpan(text)
    IN  IF span[1] > 0
        THEN QuestionLines(Split(SubSeq(text, span[1], span[2]), BackslashN))
        ELSE <<>>

_extract_suggested_questions(text) ==
    LET span == ListSpan(text)
        questions == IF span[1] > 0
                     THEN QuestionLines(Split(SubSeq(text, span[1], span[2]), BackslashN))
                     ELSE <<>>
    IN  Take(questions, 3)

(* -------------------- rag.py: composing the answer -------------------- *)

OurDocumentation == <<"our documentation">>

\* a Python int as the index returns it for a number stored in the metadata
Page3 == <<"int 3">>

\* values that are no str
NotStr == {PyNone, Page3}

\* SourceDocument(source=..., content=..., details=doc["metadata"]) passes the
\* validation of models.SourceDocument (source: str, details: Dict[str, str])
Validates(doc) ==
    /\ Get(doc.metadata, "source", OurDocumentation) \notin NotStr
    /\ \A k \in DOMAIN doc.metadata : doc.metadata[k] \notin NotStr

\* the loop of lines 227-241 builds a SourceDocument for every document
Buildable(docs) == \A i \in 1..Len(docs) : Validates(docs[i])

\* the pydantic ValidationError that leaves _generate_response
ValidationError == [raised |-> TRUE]

SourceDocument(doc) ==
    [source |-> Get(doc.metadata, "source", OurDocumentation),
     content |-> doc.content,
     details |-> doc.metadata]

RECURSIVE SourceDocuments(_)
SourceDocuments(docs) ==
    IF docs = <<>> THEN <<>> ELSE <<SourceDocument(Head(docs))>> \o SourceDocuments(Tail(docs))

\* f"From {source} (related to '{faq_question[:100]}...'): {content[:300]}..."
Excerpt(doc) ==
    <<"From ">> \o Get(doc.metadata, "source", OurDocumentation)
    \o <<" (related to '">> \o Take(Get(doc.metadata, "Question", <<>>), LabelExcerptLen)
    \o <<"...'): ">> \o Take(doc.content, ContentExcerptLen) \o <<"...">>

RECURSIVE Excerpts(_)
Excerpts(docs) ==
    IF docs = <<>> THEN <<>> ELSE <<Excerpt(Head(docs))>> \o Excerpts(Tail(docs))

FallbackOpening ==
    <<"I apologize, I couldn't provide a direct, comprehensive answer to your question based on the specific information I have at hand. However, here's some related information from our documentation that might be helpful:">>
    \o BackslashN \o BackslashN

FallbackClosing ==
    BackslashN \o BackslashN \o
    <<"If this doesn't fully address your query, please try rephrasing it or providing more details. I'm here to assist you further.">>

\* the fallback that answers with the generic message whatever the documents
_structured_fallback_generic(docs, original_question) ==
    [result |-> fallback_message,
     source_documents |-> <<>>,
     suggested_questions |->
         << <<"Could you please rephrase your question more specifically?">>,
            <<"What specific RedClouds ERP module are you interested in?">>,
            <<"Would you like me to connect you with a human support agent?">> >>]

_structured_fallback_response(docs, original_question) ==
    IF docs = <<>>
    THEN [result |-> fallback_message,
          source_documents |-> <<>>,
          suggested_questions |->
              << <<"Could you please rephrase your question more specifically?">>,
                 <<"What specific RedClouds ERP module are you interested in?">>,
                 <<"Would you like me to connect you with a human support agent?">> >>]
    ELSE [result |-> FallbackOpening \o Join(BackslashN \o BackslashN, Excerpts(docs))
                     \o FallbackClosing,
          source_documents |-> SourceDocuments(docs),
          suggested_questions |->
              << <<"How can I rephrase my question to get a better answer?">>,
                 <<"Can you tell me more about [topic from excerpt]?">>,
                 <<"Is there a contact for human support?">> >>]

RegexSpace == {" ", "\n", "\t", "\r"}

\* [\s\n]*[\-\*]?\s*<sq>, case ignored, at position i: the position after the
\* match, or 0
QuestionMatchEnd(s, i, sq) ==
    LET p == i + Run(s, i, RegexSpace)
        p2 == p + 1 + Run(s, p + 1, RegexSpace)
    IN  IF p <= Len(s) /\ s[p] \in {"-", "*"} /\ MatchAt(Lower(s), p2, Lower(sq))
        THEN p2 + Len(sq)
        ELSE IF MatchAt(Lower(s), p, Lower(sq)) THEN p + Len(sq)
        ELSE 0

\* re.sub(f'[\\s\\n]*[\\-\\*]?\\s*{re.escape(sq)}', '', s, flags=re.IGNORECASE)
RECURSIVE RemoveQuestion(_, _)
RemoveQuestion(s, sq) ==
    IF s = <<>> THEN <<>>
    ELSE IF QuestionMatchEnd(s, 1, sq) > 0
         THEN RemoveQuestion(Drop(s, QuestionMatchEnd(s, 1, sq) - 1), sq)
         ELSE <<Head(s)>> \o RemoveQuestion(Tail(s), sq)

RECURSIVE RemoveQuestions(_, _)
RemoveQuestions(s, sqs) ==
    IF sqs = <<>> THEN s
    ELSE RemoveQuestions(Strip(RemoveQuestion(s, Head(sqs))), Tail(sqs))

\* re.sub(r'(?:Suggested|Follow-up) questions?:\\n*', '', s, flags=re.IGNORECASE):
\* the header, a backslash and any letters n
RECURSIVE RemoveHeaderFrom(_, _, _)
RemoveHeaderFrom(s, lt, i) ==
    IF i > Len(s) THEN <<>>
    ELSE LET k == HeaderEnd(lt, i)
         IN  IF k > 0 /\ MatchAt(s, k, <<"\\">>)
             THEN RemoveHeaderFrom(s, lt, k + 1 + Run(lt, k + 1, {"n"}))
             ELSE <<s[i]>> \o RemoveHeaderFrom(s, lt, i + 1)

RemoveHeader(s) == RemoveHeaderFrom(s, Lower(s), 1)

\* re.sub(r'\\n{2,}', '\\n\\n', s): a backslash and two or more letters n become
\* two line feeds
RECURSIVE CollapseBlankLines(_)
CollapseBlankLines(s) ==
    IF s = <<>> THEN <<>>
    ELSE IF Head(s) = "\\" /\ Run(s, 2, {"n"}) >= 2
         THEN <<"\n", "\n">> \o CollapseBlankLines(Drop(s, 1 + Run(s, 2, {"n"})))
         ELSE <<Head(s)>> \o CollapseBlankLines(Tail(s))

unhelpful_phrases ==
    << <<"c", "o", "u", "l", "d", "n", "'", "t", " ", "f", "i", "n", "d", " ", "s", "p", "e", "c", "i", "f", "i", "c", " ", "i", "n", "f", "o", "r", "m", "a", "t", "i", "o", "n">>,
       <<"d", "o", "n", "'", "t", " ", "h", "a", "v", "e", " ", "e", "n", "o", "u", "g", "h", " ", "i", "n", "f", "o", "r", "m", "a", "t", "i", "o", "n">>,
       <<"n", "o", "t", " ", "e", "x", "p", "l", "i", "c", "i", "t", "l", "y", " ", "s", "t", "a", "t", "e", "d">>,
       <<"n", "o", "t", " ", "f", "o", "u", "n", "d", " ", "i", "n", " ", "t", "h", "e", " ", "d", "o", "c", "u", "m", "e", "n", "t", "a", "t", "i", "o", "n">>,
       <<"i", " ", "c", "a", "n", "n", "o", "t", " ", "p", "r", "o", "v", "i", "d", "e", " ", "s", "p", "e", "c", "i", "f", "i", "c", " ", "i", "n", "f", "o", "r", "m", "a", "t", "i", "o", "n">> >>

\* cleaned_response at line 286: the text of the service cleaned, without the
\* follow-up questions extracted from it and without their header
cleaned_response(raw_response) ==
    LET cleaned == _clean_response(raw_response)
        c1 == RemoveQuestions(cleaned, _extract_suggested_questions(cleaned))
        c2 == Strip(RemoveHeader(c1))
    IN  Strip(CollapseBlankLines(c2))

\* the check of line 286 with the phrases compared as written, case kept
_generate_response_case_kept(question, docs, llm) ==
    IF ~Buildable(docs) THEN ValidationError
    ELSE IF ~llm.ok THEN _structured_fallback_response(docs, question)
    ELSE LET suggested_questions == _extract_suggested_questions(_clean_response(llm.text))
             body == cleaned_response(llm.text)
         IN  IF \/ body = <<>>
                \/ \E i \in 1..Len(unhelpful_phrases) : Contains(body, unhelpful_phrases[i])
             THEN _structured_fallback_response(docs, question)
             ELSE [result |-> body,
                   source_documents |-> SourceDocuments(docs),
                   suggested_questions |-> suggested_questions]

\* _generate_response: the loop that builds the source records stands before the
\* try; then, from the return of self.llm.invoke on, the try
_generate_response(question, docs, llm) ==
    IF ~Buildable(docs) THEN ValidationError
    ELSE IF ~llm.ok THEN _structured_fallback_response(docs, question)
    ELSE LET suggested_questions == _extract_suggested_questions(_clean_response(llm.text))
             body == cleaned_response(llm.text)
         IN  IF \/ body = <<>>
                \/ \E i \in 1..Len(unhelpful_phrases) :
                       Contains(Lower(body), unhelpful_phrases[i])
             THEN _structured_fallback_response(docs, question)
             ELSE [result |-> body,
                   source_documents |-> SourceDocuments(docs),
                   suggested_questions |-> suggested_questions]

(* ----------------------- rag.py: ERPChatbot.query --------------------- *)

GreetingResult ==
    [result |-> greeting_message,
     sources |-> <<>>,
     suggested_questions |->
         << <<"What are the main ERP modules RedClouds offers?">>,
            <<"How can RedClouds ERP benefit my business?">>,
            <<"Tell me about your pricing structures.">>,
            <<"How do I get technical support for RedClouds ERP?">> >>]

NoDocumentsResult ==
    [result |-> fallback_message,
     sources |-> <<>>,
     suggested_questions |->
         << <<"Can you please rephrase your question more specifically?">>,
            <<"What specific RedClouds ERP module are you interested in?">>,
            <<"Would you like to speak to a human support agent?">> >>]

\* f"{user_id}:{question}"
cache_key(user_id, question) == user_id \o <<":">> \o question

\* query without the look in query_cache
query_uncached(question, user_id, cache, index) ==
    IF _is_greeting(question)
    THEN [returned |-> TRUE, result |-> GreetingResult, relevant_docs |-> <<>>,
          retrievals |-> 0, cache_hit |-> FALSE]
    ELSE LET relevant_docs == _retrieve_relevant_documents(question, n_results, index)
         IN  IF relevant_docs = <<>>
             THEN [returned |-> TRUE, result |-> NoDocumentsResult, relevant_docs |-> <<>>,
                   retrievals |-> 1, cache_hit |-> FALSE]
             ELSE [returned |-> FALSE, result |-> [result |-> <<>>],
                   relevant_docs |-> relevant_docs, retrievals |-> 1, cache_hit |-> FALSE]

\* query without the return on an empty retrieval
query_unguarded(question, user_id, cache, index) ==
    IF _is_greeting(question)
    THEN [returned |-> TRUE, result |-> GreetingResult, relevant_docs |-> <<>>,
          retrievals |-> 0, cache_hit |-> FALSE]
    ELSE IF cache_key(user_id, question) \in DOMAIN cache
    THEN [returned |-> TRUE, result |-> cache[cache_key(user_id, question)],
          relevant_docs |-> <<>>, retrievals |-> 0, cache_hit |-> TRUE]
    ELSE [returned |-> FALSE, result |-> [result |-> <<>>],
          relevant_docs |-> _retrieve_relevant_documents(question, n_results, index),
          retrievals |-> 1, cache_hit |-> FALSE]

\* ERPChatbot.query up to its first suspension, on the cache it finds and on what
\* the index answers if it is asked: either the value it returns at once
\* (returned = TRUE) or the documents it awaits _generate_response with.
query(question, user_id, cache, index) ==
    IF _is_greeting(question)
    THEN [returned |-> TRUE, result |-> GreetingResult, relevant_docs |-> <<>>,
          retrievals |-> 0, cache_hit |-> FALSE]
    ELSE IF cache_key(user_id, question) \in DOMAIN cache
    THEN [returned |-> TRUE, result |-> cache[cache_key(user_id, question)],
          relevant_docs |-> <<>>, retrievals |-> 0, cache_hit |-> TRUE]
    ELSE LET relevant_docs == _retrieve_relevant_documents(question, n_results, index)
         IN  IF relevant_docs = <<>>
             THEN [returned |-> TRUE, result |-> NoDocumentsResult, relevant_docs |-> <<>>,
                   retrievals |-> 1, cache_hit |-> FALSE]
             ELSE [returned |-> FALSE, result |-> [result |-> <<>>],
                   relevant_docs |-> relevant_docs, retrievals |-> 1, cache_hit |-> FALSE]

(* --------------------- main.py: the conversation store ---------------- *)

\* conversation_id = None in a request
NoneId == [t |-> 0 - 1, u |-> <<>>]

\* an id that names no conversation
GhostId == [t |-> 0, u |-> <<"g", "h", "o", "s", "t">>]

\* f"conv_{int(time.time())}_{user_id[:8]}"
new_id(time, user_id) == [t |-> time, u |-> Take(user_id, IdPrefixLen)]

EmptyContext == <<>>

json_dumps(value) == [json |-> TRUE, value |-> value]

json_loads(text) == text.value

Put(f, k, v) == [x \in (DOMAIN f) \cup {k} |-> IF x = k THEN v ELSE f[x]]

Without(f, ks) == [x \in (DOMAIN f) \ ks |-> f[x]]

ConversationState(conversation_id, user_id, context, last_interaction) ==
    [conversation_id |-> conversation_id, user_id |-> user_id,
     context |-> context, last_interaction |-> last_interaction]

NoConversation == ConversationState(NoneId, <<>>, EmptyContext, 0)

\* a row of SELECT conversation_id, user_id, context, created_at, updated_at
Row(id) ==
    [conversation_id |-> id, user_id |-> conversations[id].user_id,
     context |-> conversations[id].context, created_at |-> conversations[id].created_at,
     updated_at |-> conversations[id].updated_at]

\* ConversationState(conversation_id=conv_data[0], user_id=conv_data[1],
\*                   context=json.loads(conv_data[2]), last_interaction=conv_data[4])
Hydrate(conv_data) ==
    ConversationState(conv_data.conversation_id, conv_data.user_id,
                      json_loads(conv_data.context), conv_data.updated_at)

\* A storage statement succeeds (TRUE) or raises (FALSE)
StorageOutcomes == IF faults < MaxFaults THEN {TRUE, FALSE} ELSE {TRUE}

Fault(ok) == IF ok THEN faults ELSE faults + 1

\* the sweep with its comparison turned round
Expired_newer(expiry_time) ==
    {id \in DOMAIN active_conversations :
        active_conversations[id].last_interaction > expiry_time}

\* The in-memory half of _cleanup_conversations
Expired(expiry_time) ==
    {id \in DOMAIN active_conversations :
        active_conversations[id].last_interaction < expiry_time}

\* the UPDATE without its WHERE clause
RefreshOld_all(expiry_time) ==
    [id \in DOMAIN conversations |-> [conversations[id] EXCEPT !.updated_at = now]]

\* UPDATE conversations SET updated_at = GETDATE() WHERE updated_at < ?
RefreshOld(expiry_time) ==
    [id \in DOMAIN conversations |->
        IF conversations[id].updated_at < expiry_time
        THEN [conversations[id] EXCEPT !.updated_at = now]
        ELSE conversations[id]]

\* SELECT ... WHERE user_id = ? ORDER BY updated_at DESC LIMIT 1.  The store is
\* SQL Server (config.py db_driver, GETDATE() throughout), which has no LIMIT
\* clause: the statement is rejected whatever the table holds.
LimitClauseAccepted == FALSE

MostRecent(user_id) ==
    LET mine == {id \in DOMAIN conversations : conversations[id].user_id = user_id}
    IN  IF LimitClauseAccepted /\ mine # {}
        THEN [ok |-> TRUE,
              rows |-> <<Row(CHOOSE id \in mine :
                               \A o \in mine :
                                   conversations[o].updated_at <= conversations[id].updated_at)>>]
        ELSE [ok |-> LimitClauseAccepted, rows |-> <<>>]

\* str(e) of the exceptions that reach the except clause of chat
DatabaseError == <<"pyodbc.Error">>
ValidationErrorText == <<"validation error for SourceDocument">>

ApologyDetail ==
    <<"I apologize, an unexpected error occurred. Our team has been notified. Please try again shortly.">>

\* a handler that answers with the text of the exception
HTTPException_raw(e) == [status_code |-> 500, detail |-> e]

\* except Exception as e: raise HTTPException(status_code=500, detail=...)
HTTPException(e) == [status_code |-> 500, detail |-> ApologyDetail]

Idle ==
    [pc |-> "idle", user_id |-> <<>>, question |-> <<>>, conversation_id |-> NoneId,
     expiry_time |-> 0, db |-> [ok |-> TRUE, rows |-> <<>>],
     conversation |-> NoConversation, relevant_docs |-> <<>>,
     result |-> [result |-> <<>>], status |-> 0,
     via |-> "none", retrievals |-> 0, generations |-> 0, cache_hit |-> FALSE,
     llm_ok |-> TRUE, detail |-> <<>>]

Init ==
    /\ now = 0
    /\ ticks = 0
    /\ faults = 0
    /\ started = 0
    /\ active_conversations = <<>>
    /\ conversations = <<>>
    /\ chat_history = <<>>
    /\ query_cache = <<>>
    /\ req = [p \in Procs |-> Idle]
    /\ served = <<>>
    /\ swept = {}
    /\ created = <<>>
    /\ call = [fn |-> "none"]

(* ------------------------ main.py: POST /chat -------------------------- *)

\* the ids a client can send: none, one that names nothing, one it has seen
RequestIds ==
    {NoneId, GhostId} \cup DOMAIN conversations \cup DOMAIN active_conversations

\* chat, from the return of _get_conversation to its next suspension: the call of
\* chatbot.query and, when that returns without suspending, lines 95-97; when
\* _generate_response raises before its await, the HTTP 500 of lines 140-145.  act
\* is active_conversations as _get_conversation leaves it.
Continue(p, conversation, act, via) ==
    \E index \in IndexOutcomes :
      \E q \in {query(req[p].question, req[p].user_id, query_cache, index)} :
        LET r == req[p]
            touched == [conversation EXCEPT !.last_interaction = now]
            raised == ~q.returned /\ ~Buildable(q.relevant_docs)
        IN  /\ req' = [req EXCEPT ![p] =
                         [r EXCEPT !.pc = IF raised THEN "done"
                                          ELSE IF q.returned THEN "update_db" ELSE "llm",
                                   !.status = IF raised
                                              THEN HTTPException(ValidationErrorText).status_code
                                              ELSE r.status,
                                   !.detail = IF raised
                                              THEN HTTPException(ValidationErrorText).detail
                                              ELSE r.detail,
                                   !.conversation = IF q.returned THEN touched ELSE conversation,
                                   !.relevant_docs = q.relevant_docs,
                                   !.result = q.result,
                                   !.via = via,
                                   !.retrievals = q.retrievals,
                                   !.cache_hit = q.cache_hit]]
            /\ active_conversations' =
                   IF q.returned THEN Put(act, conversation.conversation_id, touched) ELSE act

\* A request of one of users with one of questions arrives: chat calls
\* _get_conversation, which calls _cleanup_conversations, which drops the expired
\* entries and awaits the store.
ChatBeginBy(p, users, questions) ==
    /\ req[p].pc \in {"idle", "done"}
    /\ started < MaxRequests
    /\ \E user_id \in users, question \in questions, conversation_id \in RequestIds :
        LET expiry_time == now - conversation_timeout
        IN  /\ req' = [req EXCEPT ![p] =
                         [Idle EXCEPT !.pc = "cleanup_db", !.user_id = user_id,
                                      !.question = question,
                                      !.conversation_id = conversation_id,
                                      !.expiry_time = expiry_time]]
            /\ active_conversations' = Without(active_conversations, Expired(expiry_time))
            /\ swept' = swept \cup Expired(expiry_time)
    /\ started' = started + 1
    /\ UNCHANGED <<now, ticks, faults, conversations, chat_history, query_cache, served, created, call>>

ChatBegin(p) == ChatBeginBy(p, Users, Questions)

\* The store runs the UPDATE of _cleanup_conversations, or fails (the failure is
\* caught and logged).
DbCleanup(p) ==
    /\ req[p].pc = "cleanup_db"
    /\ \E ok \in StorageOutcomes :
        /\ conversations' = IF ok THEN RefreshOld(req[p].expiry_time) ELSE conversations
        /\ faults' = Fault(ok)
    /\ req' = [req EXCEPT ![p].pc = "cleanup_done"]
    /\ UNCHANGED <<now, ticks, started, active_conversations, chat_history, query_cache,
                   served, swept, created, call>>

\* _get_conversation resumes: step 1, the look in active_conversations
AfterCleanup(p) ==
    /\ req[p].pc = "cleanup_done"
    /\ LET r == req[p]
           cid == r.conversation_id
       IN  IF /\ cid # NoneId
              /\ cid \in DOMAIN active_conversations
              /\ active_conversations[cid].user_id = r.user_id
           THEN Continue(p, active_conversations[cid], active_conversations, "memory")
           ELSE /\ req' = [req EXCEPT ![p].pc = IF cid # NoneId THEN "select_db"
                                                 ELSE "recent_db"]
                /\ UNCHANGED active_conversations
    /\ UNCHANGED <<now, ticks, faults, started, conversations, chat_history, query_cache,
                   served, swept, created, call>>

\* The store runs SELECT ... WHERE conversation_id = ?
DbSelect(p) ==
    /\ req[p].pc = "select_db"
    /\ \E ok \in StorageOutcomes :
        /\ req' = [req EXCEPT ![p].pc = "select_done",
                              ![p].db =
                                  [ok |-> ok,
                                   rows |-> IF ok /\ req[p].conversation_id \in DOMAIN conversations
                                            THEN <<Row(req[p].conversation_id)>>
                                            ELSE <<>>]]
        /\ faults' = Fault(ok)
    /\ UNCHANGED <<now, ticks, started, active_conversations, conversations, chat_history,
                   query_cache, served, swept, created, call>>

\* step 2 taking every answer of the store for "no row"
AfterSelect_unfound(p) ==
    /\ req[p].pc = "select_done"
    /\ req' = [req EXCEPT ![p].pc = "recent_db"]
    /\ UNCHANGED <<now, ticks, faults, started, active_conversations, conversations,
                   chat_history, query_cache, served, swept, created, call>>

\* _get_conversation resumes: step 2, the row found is hydrated and put in
\* active_conversations; no row, or a failure of the statement or of json.loads
\* on the context, goes on to the most recent one
AfterSelect(p) ==
    /\ req[p].pc = "select_done"
    /\ IF req[p].db.ok /\ req[p].db.rows # <<>> /\ req[p].db.rows[1].context.json
       THEN LET conversation == Hydrate(req[p].db.rows[1])
            IN  Continue(p, conversation,
                         Put(active_conversations, conversation.conversation_id, conversation),
                         "db")
       ELSE /\ req' = [req EXCEPT ![p].pc = "recent_db"]
            /\ UNCHANGED active_conversations
    /\ UNCHANGED <<now, ticks, faults, started, conversations, chat_history, query_cache,
                   served, swept, created, call>>

\* _get_conversation, step 3: the most recent conversation of the user, and when
\* there is none, or the statement fails, the new ConversationState of step 4 up
\* to its INSERT
SelectRecent(p) ==
    /\ req[p].pc = "recent_db"
    /\ LET recent_conv_records == MostRecent(req[p].user_id)
       IN  IF recent_conv_records.ok /\ recent_conv_records.rows # <<>>
           THEN LET conversation == Hydrate(recent_conv_records.rows[1])
                IN  /\ Continue(p, conversation,
                                Put(active_conversations, conversation.conversation_id,
                                    conversation),
                                "recent")
                    /\ UNCHANGED created
           ELSE LET id == new_id(now, req[p].user_id)
                IN  /\ req' = [req EXCEPT ![p].pc = "insert_db",
                                          ![p].conversation =
                                              ConversationState(id, req[p].user_id,
                                                                EmptyContext, now)]
                    /\ created' = Append(created, id)
                    /\ UNCHANGED active_conversations
    /\ UNCHANGED <<now, ticks, faults, started, conversations, chat_history, query_cache,
                   served, swept, call>>

\* The store runs INSERT INTO conversations: a duplicate primary key or a fault
\* raises, and the exception is logged
DbInsert(p) ==
    /\ req[p].pc = "insert_db"
    /\ \E ok \in StorageOutcomes :
        LET c == req[p].conversation
            inserted == ok /\ c.conversation_id \notin DOMAIN conversations
        IN  /\ conversations' =
                   IF inserted
                   THEN Put(conversations, c.conversation_id,
                            [user_id |-> c.user_id, context |-> json_dumps(c.context),
                             created_at |-> now, updated_at |-> now])
                   ELSE conversations
            /\ req' = [req EXCEPT ![p].pc = "insert_done",
                                  ![p].db = [ok |-> inserted, rows |-> <<>>]]
            /\ faults' = Fault(ok)
    /\ UNCHANGED <<now, ticks, started, active_conversations, chat_history, query_cache,
                   served, swept, created, call>>

\* _get_conversation letting the exception of the INSERT go
AfterInsert_raising(p) ==
    /\ req[p].pc = "insert_done"
    /\ IF req[p].db.ok
       THEN Continue(p, req[p].conversation,
                     Put(active_conversations, req[p].conversation.conversation_id,
                         req[p].conversation),
                     "new")
       ELSE /\ req' = [req EXCEPT ![p].pc = "done", ![p].status = 500]
            /\ UNCHANGED active_conversations
    /\ UNCHANGED <<now, ticks, faults, started, conversations, chat_history, query_cache,
                   served, swept, created, call>>

\* _get_conversation resumes: active_conversations[new_id] = conversation
AfterInsert(p) ==
    /\ req[p].pc = "insert_done"
    /\ Continue(p, req[p].conversation,
                Put(active_conversations, req[p].conversation.conversation_id,
                    req[p].conversation),
                "new")
    /\ UNCHANGED <<now, ticks, faults, started, conversations, chat_history, query_cache,
                   served, swept, created, call>>

\* the resume after the generation call with a cache that holds one entry only
AfterLlm_evicting(p) ==
    /\ req[p].pc = "llm"
    /\ \E http \in HttpOutcomes :
      \E response_data \in {_generate_response(req[p].question, req[p].relevant_docs,
                                                invoke(http))} :
        LET r == req[p]
            llm == invoke(http)
            key == cache_key(r.user_id, r.question)
            touched == [r.conversation EXCEPT !.last_interaction = now]
        IN  /\ query_cache' = Put(<<>>, key, response_data)
            /\ active_conversations' =
                   Put(active_conversations, touched.conversation_id, touched)
            /\ req' = [req EXCEPT ![p] =
                         [r EXCEPT !.pc = "update_db", !.result = response_data,
                                   !.conversation = touched,
                                   !.generations = r.generations + 1,
                                   !.llm_ok = llm.ok]]
    /\ UNCHANGED <<now, ticks, faults, started, conversations, chat_history, served, swept,
                   created, call>>

\* the resume after the generation call that calls the service once more when the
\* first call has failed
AfterLlm_retrying(p) ==
    /\ req[p].pc = "llm"
    /\ \E http \in HttpOutcomes :
      \E response_data \in {_generate_response(req[p].question, req[p].relevant_docs,
                                                invoke(http))} :
        LET r == req[p]
            llm == invoke(http)
            key == cache_key(r.user_id, r.question)
            touched == [r.conversation EXCEPT !.last_interaction = now]
            again == ~llm.ok /\ r.generations = 0
        IN  /\ query_cache' = IF again THEN query_cache
                              ELSE Put(query_cache, key, response_data)
            /\ active_conversations' =
                   IF again THEN active_conversations
                   ELSE Put(active_conversations, touched.conversation_id, touched)
            /\ req' = [req EXCEPT ![p] =
                         IF again THEN [r EXCEPT !.generations = r.generations + 1]
                         ELSE [r EXCEPT !.pc = "update_db", !.result = response_data,
                                        !.conversation = touched,
                                        !.generations = r.generations + 1,
                                        !.llm_ok = llm.ok]]
    /\ UNCHANGED <<now, ticks, faults, started, conversations, chat_history, served, swept,
                   created, call>>

\* the resume after the generation call that keeps the entry query_cache holds
AfterLlm_first_writer(p, outcomes) ==
    /\ req[p].pc = "llm"
    /\ \E http \in outcomes :
      \E response_data \in {_generate_response(req[p].question, req[p].relevant_docs,
                                                invoke(http))} :
        LET r == req[p]
            llm == invoke(http)
            key == cache_key(r.user_id, r.question)
            touched == [r.conversation EXCEPT !.last_interaction = now]
        IN  /\ query_cache' = IF key \in DOMAIN query_cache THEN query_cache
                              ELSE Put(query_cache, key, response_data)
            /\ active_conversations' =
                   Put(active_conversations, touched.conversation_id, touched)
            /\ req' = [req EXCEPT ![p] =
                         [r EXCEPT !.pc = "update_db", !.result = response_data,
                                   !.conversation = touched,
                                   !.generations = r.generations + 1,
                                   !.llm_ok = llm.ok]]
    /\ UNCHANGED <<now, ticks, faults, started, conversations, chat_history, served, swept,
                   created, call>>

\* the resume after the generation call that leaves active_conversations alone
AfterLlm_untouched(p, outcomes) ==
    /\ req[p].pc = "llm"
    /\ \E http \in outcomes :
      \E response_data \in {_generate_response(req[p].question, req[p].relevant_docs,
                                                invoke(http))} :
        LET r == req[p]
            llm == invoke(http)
            key == cache_key(r.user_id, r.question)
            touched == [r.conversation EXCEPT !.last_interaction = now]
        IN  /\ query_cache' = Put(query_cache, key, response_data)
            /\ active_conversations' = active_conversations
            /\ req' = [req EXCEPT ![p] =
                         [r EXCEPT !.pc = "update_db", !.result = response_data,
                                   !.conversation = touched,
                                   !.generations = r.generations + 1,
                                   !.llm_ok = llm.ok]]
    /\ UNCHANGED <<now, ticks, faults, started, conversations, chat_history, served, swept,
                   created, call>>

\* self.llm.invoke returns or raises, its HTTP call having come back with one of
\* outcomes: the rest of _generate_response and of query, then chat lines 95-97
AfterLlmOn(p, outcomes) ==
    /\ req[p].pc = "llm"
    /\ \E http \in outcomes :
      \E response_data \in {_generate_response(req[p].question, req[p].relevant_docs,
                                                invoke(http))} :
        LET r == req[p]
            llm == invoke(http)
            key == cache_key(r.user_id, r.question)
            touched == [r.conversation EXCEPT !.last_interaction = now]
        IN  /\ query_cache' = Put(query_cache, key, response_data)
            /\ active_conversations' =
                   Put(active_conversations, touched.conversation_id, touched)
            /\ req' = [req EXCEPT ![p] =
                         [r EXCEPT !.pc = "update_db", !.result = response_data,
                                   !.conversation = touched,
                                   !.generations = r.generations + 1,
                                   !.llm_ok = llm.ok]]
    /\ UNCHANGED <<now, ticks, faults, started, conversations, chat_history, served, swept,
                   created, call>>

AfterLlm(p) == AfterLlmOn(p, HttpOutcomes)

\* The store runs UPDATE conversations SET context = ?, updated_at = GETDATE()
\* WHERE conversation_id = ?; a failure ends the request with HTTP 500
DbUpdate(p) ==
    /\ req[p].pc = "update_db"
    /\ \E ok \in StorageOutcomes :
        LET c == req[p].conversation
        IN  /\ conversations' =
                   IF ok /\ c.conversation_id \in DOMAIN conversations
                   THEN [conversations EXCEPT ![c.conversation_id] =
                            [@ EXCEPT !.context = json_dumps(c.context), !.updated_at = now]]
                   ELSE conversations
            /\ req' = [req EXCEPT ![p].pc = IF ok THEN "history_db" ELSE "done",
                                  ![p].status =
                                      IF ok THEN 0 ELSE HTTPException(DatabaseError).status_code,
                                  ![p].detail =
                                      IF ok THEN <<>> ELSE HTTPException(DatabaseError).detail]
            /\ faults' = Fault(ok)
    /\ UNCHANGED <<now, ticks, started, active_conversations, chat_history, query_cache,
                   served, swept, created, call>>

\* the INSERT INTO chat_history that stores no row
DbHistory_unlogged(p) ==
    /\ req[p].pc = "history_db"
    /\ \E ok \in StorageOutcomes :
        /\ chat_history' = chat_history
        /\ req' = [req EXCEPT ![p].pc = "done",
                              ![p].status = IF ok THEN 200 ELSE 500]
        /\ faults' = Fault(ok)
    /\ UNCHANGED <<now, ticks, started, active_conversations, conversations, query_cache,
                   served, swept, created, call>>

\* The store runs INSERT INTO chat_history; then the response is built
DbHistory(p) ==
    /\ req[p].pc = "history_db"
    /\ \E ok \in StorageOutcomes :
        LET r == req[p]
        IN  /\ chat_history' =
                   IF ok
                   THEN Append(chat_history,
                               [conversation_id |-> r.conversation.conversation_id,
                                user_id |-> r.user_id,
                                question |-> r.question,
                                response |-> r.result.result,
                                sources |-> json_dumps(Get(r.result, "source_documents", <<>>)),
                                timestamp |-> now])
                   ELSE chat_history
            /\ req' = [req EXCEPT ![p].pc = "done",
                                  ![p].status =
                                      IF ok THEN 200 ELSE HTTPException(DatabaseError).status_code,
                                  ![p].detail =
                                      IF ok THEN <<>> ELSE HTTPException(DatabaseError).detail]
            /\ faults' = Fault(ok)
    /\ UNCHANGED <<now, ticks, started, active_conversations, conversations, query_cache,
                   served, swept, created, call>>

\* the clock advances, by a second or past the conversation timeout
Tick ==
    /\ ticks < MaxTicks
    /\ \E d \in {1, conversation_timeout + 1} : now' = now + d
    /\ ticks' = ticks + 1
    /\ UNCHANGED <<faults, started, active_conversations, conversations, chat_history,
                   query_cache, req, served, swept, created, call>>

Next ==
    \/ Tick
    \/ \E p \in Server :
        \/ ChatBegin(p)
        \/ DbCleanup(p)
        \/ AfterCleanup(p)
        \/ DbSelect(p)
        \/ AfterSelect(p)
        \/ SelectRecent(p)
        \/ DbInsert(p)
        \/ AfterInsert(p)
        \/ AfterLlm(p)
        \/ DbUpdate(p)
        \/ DbHistory(p)

Spec == Init /\ [][Next]_vars

(* ------------- rag.py: _generate_response applied on its own ---------- *)

MaxDocs == 2

\* documents as _retrieve_relevant_documents hands them on
DocPaged ==
    [content |-> <<"p", "a", "g", "e", "s">>,
     metadata |-> [source |-> Faqs, page |-> Page3]]

Retrieved ==
    {[content |-> doc.content, metadata |-> doc.metadata,
      distance |-> 30, type |-> "vector_search"] :
         doc \in {Collection[i] : i \in 1..Len(Collection)} \cup {DocPaged}}

AnswerCannot ==
    <<"I", " ", "c", "a", "n", "n", "o", "t", " ", "p", "r", "o", "v", "i", "d", "e", " ",
      "s", "p", "e", "c", "i", "f", "i", "c", " ", "i", "n", "f", "o", "r", "m", "a", "t",
      "i", "o", "n", ".">>

AnswerListed ==
    <<"S", "u", "g", "g", "e", "s", "t", "e", "d", " ", "q", "u", "e", "s", "t", "i", "o",
      "n", "s", ":", " ", "-", " ", "W", "h", "y", "?">>

\* an answer that ends in a list of follow-up questions, one per line
AnswerFollowUps ==
    <<"U", "s", "e", " ", "i", "t", ".", "\n",
      "S", "u", "g", "g", "e", "s", "t", "e", "d", " ", "q", "u", "e", "s", "t", "i", "o",
      "n", "s", ":", "\n",
      "-", " ", "W", "h", "y", "?", "\n",
      "2", ".", " ", "H", "o", "w", "?">>

\* the outcomes of the HTTP call that _generate_response is applied to
ComposeOutcomes ==
    HttpOutcomes \cup {[kind |-> "text", text |-> AnswerCannot],
                       [kind |-> "text", text |-> AnswerListed],
                       [kind |-> "text", text |-> AnswerFollowUps]}

DocLists == UNION {[1..n -> Retrieved] : n \in 0..MaxDocs}

InitCompose ==
    /\ now = 0
    /\ ticks = 0
    /\ faults = 0
    /\ started = 0
    /\ active_conversations = <<>>
    /\ conversations = <<>>
    /\ chat_history = <<>>
    /\ query_cache = <<>>
    /\ req = [p \in Procs |-> Idle]
    /\ served = <<>>
    /\ swept = {}
    /\ created = <<>>
    /\ call \in {[fn |-> "args", question |-> question, docs |-> docs, http |-> http] :
                    question \in Questions, docs \in DocLists, http \in ComposeOutcomes}

\* await self._generate_response(question, relevant_docs), with the HTTP call of
\* self.llm.invoke, when it is reached (generations = 1), coming back with call.http
ComposeCall ==
    /\ call.fn = "args"
    /\ call' = [fn |-> "_generate_response", question |-> call.question,
                docs |-> call.docs, http |-> call.http,
                generations |-> IF Buildable(call.docs) THEN 1 ELSE 0,
                value |-> _generate_response(call.question, call.docs, invoke(call.http))]
    /\ UNCHANGED <<now, ticks, faults, started, active_conversations, conversations,
                   chat_history, query_cache, req, served, swept, created>>

NextCompose == ComposeCall

SpecCompose == InitCompose /\ [][NextCompose]_vars

(* -------- rag.py: _retrieve_relevant_documents applied on its own ----- *)

MaxHits == 3
MaxLimit == 2

\* a backslash and letters w are what re.findall(r'\\w+', ...) finds
QSlashW == <<"\\", "w">>
QSlashWW == <<"\\", "w", " ", "\\", "w", "w">>

RetrieveQuestions == {QStock, QSlashW, QSlashWW}

DocW ==
    [content |-> <<"\\", "w", " ", "r", "u", "l", "e">>,
     metadata |-> [source |-> Faqs]]

DocWW ==
    [content |-> <<"\\", "w", "w", " ", "\\", "w">>,
     metadata |-> [source |-> Faqs]]

DocBare == [content |-> <<"b", "a", "r", "e">>, metadata |-> NoMetadata]

ScannedCollection == <<DocStock, DocW, DocWW>>

Hits ==
    {Hit(DocStock, 30), Hit(DocTax, 85), Hit(DocBins, 50), Hit(DocTax, 80),
     Hit(DocW, 30), Hit(DocW, 60), Hit(DocBare, 40)}

HitLists == UNION {[1..n -> Hits] : n \in 0..MaxHits}

\* the default limit and small ones
Limits == (1..MaxLimit) \cup {n_results}

Indexes ==
    {[ok |-> TRUE, scan_ok |-> scan_ok, vector_results |-> vector_results,
      all_chroma_data |-> ScannedCollection] :
         scan_ok \in BOOLEAN, vector_results \in HitLists}
    \cup {[ok |-> FALSE, scan_ok |-> TRUE, vector_results |-> <<>>,
           all_chroma_data |-> ScannedCollection]}

InitRetrieve ==
    /\ now = 0
    /\ ticks = 0
    /\ faults = 0
    /\ started = 0
    /\ active_conversations = <<>>
    /\ conversations = <<>>
    /\ chat_history = <<>>
    /\ query_cache = <<>>
    /\ req = [p \in Procs |-> Idle]
    /\ served = <<>>
    /\ swept = {}
    /\ created = <<>>
    /\ call \in {[fn |-> "args", question |-> question, limit |-> limit, index |-> index] :
                    question \in RetrieveQuestions, limit \in Limits, index \in Indexes}

\* self._retrieve_relevant_documents(question, n_results=limit) on the index
RetrieveCall ==
    /\ call.fn = "args"
    /\ call' = [fn |-> "_retrieve_relevant_documents", question |-> call.question,
                limit |-> call.limit, index |-> call.index,
                value |-> _retrieve_relevant_documents(call.question, call.limit,
                                                       call.index)]
    /\ UNCHANGED <<now, ticks, faults, started, active_conversations, conversations,
                   chat_history, query_cache, req, served, swept, created>>

NextRetrieve == RetrieveCall

SpecRetrieve == InitRetrieve /\ [][NextRetrieve]_vars

(* --------------- rag.py: ERPChatbot.query called on its own ----------- *)

MaxCalls == 2

QTax == <<"t", "a", "x", "?">>
QWhich == <<"w", "h", "i", "c", "h", "?">>

AskedQuestions == Questions \cup {QTax, QWhich}

\* what the latest call of query with the pair <<user_id, question>> returned and
\* invoked
Served(pair) ==
    IF pair \in DOMAIN served
    THEN [seen |-> TRUE, result |-> served[pair].result, retrievals |-> served[pair].retrievals,
          generations |-> served[pair].generations, cache_hit |-> served[pair].cache_hit]
    ELSE [seen |-> FALSE]

\* query is called by one of users with one of questions, after the call before
\* it has returned, and runs to its return, to the exception _generate_response
\* raises before its await, or to that await
QueryCallBy(users, questions) ==
    /\ call.fn \in {"none", "query"}
    /\ started < MaxCalls
    /\ \E user_id \in users, question \in questions, index \in IndexOutcomes :
         \E q \in {query(question, user_id, query_cache, index)} :
           /\ call' = [fn |-> IF q.returned \/ ~Buildable(q.relevant_docs)
                              THEN "query" ELSE "query_awaits",
                       user_id |-> user_id, question |-> question,
                       value |-> IF q.returned \/ Buildable(q.relevant_docs)
                                 THEN q.result ELSE ValidationError,
                       relevant_docs |-> q.relevant_docs,
                       retrievals |-> q.retrievals, generations |-> 0,
                       cache_hit |-> q.cache_hit,
                       prev |-> Served(<<user_id, question>>)]
           /\ served' = IF q.returned
                        THEN Put(served, <<user_id, question>>,
                                 [result |-> q.result, retrievals |-> q.retrievals,
                                  generations |-> 0, cache_hit |-> q.cache_hit])
                        ELSE served
    /\ started' = started + 1
    /\ UNCHANGED <<now, ticks, faults, active_conversations, conversations, chat_history,
                   query_cache, req, swept, created>>

QueryCall == QueryCallBy(Users, AskedQuestions)

\* the resume of query that stores an answer of the service only, no fallback
QueryResume_answers_only ==
    /\ call.fn = "query_awaits"
    /\ \E http \in HttpOutcomes :
         \E response_data \in {_generate_response(call.question, call.relevant_docs,
                                                   invoke(http))} :
           /\ query_cache' =
                  IF response_data = _structured_fallback_response(call.relevant_docs,
                                                                   call.question)
                  THEN query_cache
                  ELSE Put(query_cache, cache_key(call.user_id, call.question), response_data)
           /\ call' = [call EXCEPT !.fn = "query", !.value = response_data,
                                   !.generations = 1]
           /\ served' = Put(served, <<call.user_id, call.question>>,
                            [result |-> response_data, retrievals |-> call.retrievals,
                             generations |-> 1, cache_hit |-> FALSE])
    /\ UNCHANGED <<now, ticks, faults, started, active_conversations, conversations,
                   chat_history, req, swept, created>>

\* _generate_response returns to query, which stores the answer and returns it
QueryResume ==
    /\ call.fn = "query_awaits"
    /\ \E http \in HttpOutcomes :
         \E response_data \in {_generate_response(call.question, call.relevant_docs,
                                                   invoke(http))} :
           /\ query_cache' = Put(query_cache, cache_key(call.user_id, call.question),
                                 response_data)
           /\ call' = [call EXCEPT !.fn = "query", !.value = response_data,
                                   !.generations = 1]
           /\ served' = Put(served, <<call.user_id, call.question>>,
                            [result |-> response_data, retrievals |-> call.retrievals,
                             generations |-> 1, cache_hit |-> FALSE])
    /\ UNCHANGED <<now, ticks, faults, started, active_conversations, conversations,
                   chat_history, req, swept, created>>

NextQuery == QueryCall \/ QueryResume

SpecQuery == Init /\ [][NextQuery]_vars

(* ------------ rag.py: query called with ids that hold a colon --------- *)

\* user ids and questions are free text of the request
Customer1Colon == Customer1 \o <<":">>

ColonTax == <<":">> \o QTax

KeyedUsers == {Customer1, Customer1Colon}

KeyedQuestions == {QTax, ColonTax}

KeyedCall == QueryCallBy(KeyedUsers, KeyedQuestions)

NextKeys == KeyedCall \/ QueryResume

SpecKeys == Init /\ [][NextKeys]_vars

(* ------------- main.py: GET /conversation/{conversation_id} ----------- *)

MaxRows == 2

\* a text of a column that json.loads rejects
MalformedJson == [json |-> FALSE, value |-> <<>>]

\* HTTPException(status_code=404, detail=...)
NotFound ==
    [status_code |-> 404, detail |-> <<"Conversation not found or an error occurred.">>]

\* the loop over the records: sources decoded, a text that does not decode taken
\* as the empty list
RECURSIVE ProcessedRecords(_)
ProcessedRecords(records) ==
    IF records = <<>> THEN <<>>
    ELSE LET record == Head(records)
             sources_data == IF record.sources.json THEN json_loads(record.sources) ELSE <<>>
         IN  <<[question |-> record.question, response |-> record.response,
                sources |-> sources_data, timestamp |-> record.timestamp]>>
             \o ProcessedRecords(Tail(records))

\* get_conversation on the table history; answers = FALSE is the store failing
\* the SELECT
get_conversation(conversation_id, answers, history) ==
    IF ~answers THEN NotFound
    ELSE [status_code |-> 200,
          messages |-> ProcessedRecords(
                           SelectSeq(history,
                                     LAMBDA row : row.conversation_id = conversation_id))]

\* chat_history holds up to MaxRows turns of two conversations, their sources
\* column an empty list, a list of one source, or a text that is no JSON
InitHistory ==
    /\ now = 0
    /\ ticks = 0
    /\ faults = 0
    /\ started = 0
    /\ active_conversations = <<>>
    /\ conversations = <<>>
    /\ query_cache = <<>>
    /\ req = [p \in Procs |-> Idle]
    /\ served = <<>>
    /\ swept = {}
    /\ created = <<>>
    /\ LET ids == {new_id(0, Customer1), new_id(1, Customer1)}
           columns == {json_dumps(<<>>), json_dumps(SourceDocuments(<<DocStock>>)),
                       MalformedJson}
           rows == {[conversation_id |-> id, user_id |-> Customer1, question |-> QStock,
                     response |-> AnswerStock, sources |-> sources, timestamp |-> 0] :
                        id \in ids, sources \in columns}
       IN  /\ chat_history \in
                  UNION {{[i \in 1..n |-> [f[i] EXCEPT !.timestamp = i]] :
                             f \in [1..n -> rows]} : n \in 0..MaxRows}
           /\ call \in {[fn |-> "args", conversation_id |-> id, answers |-> answers] :
                           id \in ids \cup {GhostId}, answers \in BOOLEAN}

GetConversationCall ==
    /\ call.fn = "args"
    /\ call' = [fn |-> "get_conversation", conversation_id |-> call.conversation_id,
                answers |-> call.answers,
                value |-> get_conversation(call.conversation_id, call.answers, chat_history)]
    /\ UNCHANGED <<now, ticks, faults, started, active_conversations, conversations,
                   chat_history, query_cache, req, served, swept, created>>

SpecHistory == InitHistory /\ [][GetConversationCall]_vars

(* ------ main.py: POST /chat on a store that holds a malformed context -- *)

\* a conversation written to the store by other means, its context no JSON
StoredId == [t |-> 0, u |-> <<"o", "l", "d">>]

InitStored ==
    /\ now = 0
    /\ ticks = 0
    /\ faults = 0
    /\ started = 0
    /\ active_conversations = <<>>
    /\ conversations = Put(<<>>, StoredId,
                           [user_id |-> Customer1, context |-> MalformedJson,
                            created_at |-> 0, updated_at |-> 0])
    /\ chat_history = <<>>
    /\ query_cache = <<>>
    /\ req = [p \in Procs |-> Idle]
    /\ served = <<>>
    /\ swept = {}
    /\ created = <<>>
    /\ call = [fn |-> "none"]

SpecStored == InitStored /\ [][Next]_vars

(* ------------- main.py: POST /chat, two requests in flight ------------ *)

\* the store answers every statement
InitConcurrent ==
    /\ now = 0
    /\ ticks = 0
    /\ faults = MaxFaults
    /\ started = 0
    /\ active_conversations = <<>>
    /\ conversations = <<>>
    /\ chat_history = <<>>
    /\ query_cache = <<>>
    /\ req = [p \in Procs |-> Idle]
    /\ served = <<>>
    /\ swept = {}
    /\ created = <<>>
    /\ call = [fn |-> "none"]

\* what the generation service answers the two requests: a text, or no answer
ConcurrentOutcomes == {[kind |-> "text", text |-> AnswerStock], [kind |-> "request_error"]}

\* the event loop runs one coroutine up to its next await, then any that is
\* ready; the requests are of one user with one question
NextConcurrent ==
    \/ Tick
    \/ \E p \in Procs :
        \/ ChatBeginBy(p, {Customer1}, {QStock})
        \/ DbCleanup(p)
        \/ AfterCleanup(p)
        \/ DbSelect(p)
        \/ AfterSelect(p)
        \/ SelectRecent(p)
        \/ DbInsert(p)
        \/ AfterInsert(p)
        \/ AfterLlmOn(p, ConcurrentOutcomes)
        \/ DbUpdate(p)
        \/ DbHistory(p)

SpecConcurrent == InitConcurrent /\ [][NextConcurrent]_vars

(* ------------------------------ properties ---------------------------- *)

\* the lower-cased, trimmed question contains a greeting keyword
HasGreetingKeyword(question) ==
    \E g \in 1..Len(greetings) : Contains(Strip(Lower(question)), greetings[g])

\* in this step the request of p gets its conversation and calls chatbot.query
QueryCalled(p) ==
    /\ req[p].pc \in {"cleanup_done", "select_done", "recent_db", "insert_done"}
    /\ req'[p].pc \in {"llm", "update_db"}

\* in this step _get_conversation returns, to the request of p, the conversation
\* cid, which active_conversations then holds
ResolvedTo(p, cid) ==
    /\ QueryCalled(p)
    /\ req'[p].conversation.conversation_id = cid
    /\ cid \in DOMAIN active_conversations'
    /\ active_conversations'[cid] = req'[p].conversation

\* C1: a call of query with a question that contains a greeting keyword returns
\* at once the fixed greeting text, exactly the 4 fixed suggested questions and no
\* sources; it invokes neither retrieval nor generation, is no cache hit, and
\* leaves query_cache as it was.
C1_GreetingShortCircuit ==
    [][HasGreetingKeyword(call'.question)
       => /\ query_cache' = query_cache
          /\ call'.fn = "query"
          /\ call'.retrievals = 0
          /\ call'.generations = 0
          /\ ~call'.cache_hit
          /\ call'.value.result = greeting_message
          /\ Len(call'.value.suggested_questions) = 4
          /\ call'.value.suggested_questions = GreetingResult.suggested_questions
          /\ Get(call'.value, "sources", <<>>) = <<>>
          /\ Get(call'.value, "source_documents", <<>>) = <<>>]_vars

\* a greeting in capitals has been answered while the cache held an entry of the
\* same user
C1_Witness ==
    /\ call.fn = "query"
    /\ call.question = QHello
    /\ call.value.result = greeting_message
    /\ cache_key(call.user_id, QStock) \in DOMAIN query_cache

\* C2 as claimed: whenever a non-greeting (user_id, question) pair is asked again,
\* the second call returns the answer of the first and invokes neither retrieval
\* nor generation, whatever the first call did.
C2_CacheIdempotence ==
    (call.fn = "query" /\ ~HasGreetingKeyword(call.question) /\ call.prev.seen)
    => /\ call.value = call.prev.result
       /\ call.retrievals = 0
       /\ call.generations = 0

\* C2 amended: when the earlier call on the pair composed an answer or was served
\* from the cache, the next call on the pair returns that very answer and invokes
\* neither retrieval nor generation; when the earlier call ended in an empty
\* retrieval, the next call is a cache miss and retrieves again.
C2_CacheIdempotenceOfComposed ==
    (call.fn = "query" /\ ~HasGreetingKeyword(call.question) /\ call.prev.seen)
    => IF call.prev.cache_hit \/ call.prev.generations = 1
       THEN /\ call.value = call.prev.result
            /\ call.cache_hit
            /\ call.retrievals = 0
            /\ call.generations = 0
            /\ call.prev.retrievals + call.retrievals <= 1
            /\ call.prev.generations + call.generations <= 1
       ELSE /\ ~call.cache_hit
            /\ call.retrievals = 1

\* the second of two identical calls has been served the composed answer of the first
C2_Witness ==
    /\ call.fn = "query"
    /\ ~HasGreetingKeyword(call.question)
    /\ call.prev.seen
    /\ call.prev.generations = 1
    /\ call.prev.retrievals = 1
    /\ call.cache_hit
    /\ call.value = call.prev.result
    /\ call.value.source_documents # <<>>

\* C3: when the retrieval of a non-greeting, uncached question returns no
\* document, query returns at once the fixed fallback message with exactly the 3
\* fixed follow-ups and no sources, does not call the generation service, and
\* leaves query_cache as it was, without an entry for the question.
C3_EmptyRetrieval ==
    [][(call'.retrievals = 1 /\ call'.relevant_docs = <<>>)
       => /\ query_cache' = query_cache
          /\ cache_key(call'.user_id, call'.question) \notin DOMAIN query_cache'
          /\ call'.fn = "query"
          /\ call'.generations = 0
          /\ call'.value.result = fallback_message
          /\ Len(call'.value.suggested_questions) = 3
          /\ call'.value.suggested_questions = NoDocumentsResult.suggested_questions
          /\ Get(call'.value, "sources", <<>>) = <<>>
          /\ Get(call'.value, "source_documents", <<>>) = <<>>]_vars

\* an empty retrieval has been answered while the cache held another entry
C3_Witness ==
    /\ call.fn = "query"
    /\ call.retrievals = 1
    /\ call.relevant_docs = <<>>
    /\ ~HasGreetingKeyword(call.question)
    /\ call.value.result = fallback_message
    /\ query_cache # <<>>

\* C4: when the generation call is made and fails (transport error or timeout,
\* non-2xx status) on a non-empty document list, _generate_response returns a
\* text that holds one excerpt per document, the documents as sources in their
\* order, and is not the generic fallback message.
C4_GenerationFailureFallback ==
    (/\ call.fn = "_generate_response"
     /\ call.generations = 1
     /\ call.http.kind \in {"request_error", "status_error"}
     /\ call.docs # <<>>)
    => /\ call.value.result # fallback_message
       /\ ~Contains(call.value.result, fallback_message)
       /\ Len(call.value.source_documents) = Len(call.docs)
       /\ \A i \in 1..Len(call.docs) :
              /\ call.value.source_documents[i].content = call.docs[i].content
              /\ call.value.source_documents[i].details = call.docs[i].metadata
              /\ Contains(call.value.result, Excerpt(call.docs[i]))
       /\ Cardinality({k \in 1..Len(call.value.result) : call.value.result[k] = "From "})
              = Len(call.docs)

\* the generation call has failed on two different documents
C4_Witness ==
    /\ call.fn = "_generate_response"
    /\ call.generations = 1
    /\ call.http.kind = "request_error"
    /\ Len(call.docs) = 2
    /\ call.docs[1] # call.docs[2]
    /\ Len(call.value.source_documents) = 2

\* C5: the sweep leaves no entry of active_conversations older than now - timeout;
\* no step removes a row of conversations or changes whose it is; while no storage
\* statement has failed every swept conversation has its row; and a request that
\* names a swept conversation, whose row the store returns, gets the conversation
\* of that id built from the row.
C5_ConversationExpiry ==
    [][/\ \A p \in Server :
            (req[p].pc \in {"idle", "done"} /\ req'[p].pc = "cleanup_db")
            => \A id \in DOMAIN active_conversations :
                   active_conversations[id].last_interaction < now - conversation_timeout
                   => /\ id \notin DOMAIN active_conversations'
                      /\ id \in swept'
       /\ \A id \in DOMAIN conversations :
            /\ id \in DOMAIN conversations'
            /\ conversations'[id].user_id = conversations[id].user_id
       /\ faults' = 0 => swept' \subseteq DOMAIN conversations'
       /\ \A p \in Server :
            (/\ req[p].pc = "select_done"
             /\ req'[p].pc # "select_done"
             /\ req[p].conversation_id \in swept
             /\ req[p].conversation_id \in DOMAIN conversations
             /\ req[p].db.ok)
            => /\ ResolvedTo(p, req[p].conversation_id)
               /\ req'[p].via = "db"
               /\ req'[p].conversation.user_id = conversations[req[p].conversation_id].user_id
               /\ json_dumps(req'[p].conversation.context)
                      = conversations[req[p].conversation_id].context]_vars

\* a conversation that a sweep removed has been resolved again from its row
C5_Witness ==
    \E p \in Server :
        /\ req[p].pc = "done"
        /\ req[p].status = 200
        /\ req[p].conversation_id \in swept
        /\ req[p].via = "db"
        /\ req[p].conversation.conversation_id = req[p].conversation_id
        /\ req[p].conversation_id \in DOMAIN active_conversations
        /\ req[p].conversation_id \in DOMAIN conversations

\* C6: a request naming a conversation that active_conversations holds under its
\* user gets that conversation; one naming a conversation that the store returns
\* on lookup gets the conversation of that id; in both cases
\* active_conversations maps the id to the conversation returned.
C6_ResolveByIdent ==
    [][\A p \in Server :
          /\ (/\ req[p].pc = "cleanup_done"
              /\ req'[p].pc # "cleanup_done"
              /\ req[p].conversation_id # NoneId
              /\ req[p].conversation_id \in DOMAIN active_conversations
              /\ active_conversations[req[p].conversation_id].user_id = req[p].user_id)
             => /\ ResolvedTo(p, req[p].conversation_id)
                /\ req'[p].via = "memory"
          /\ (/\ req[p].pc = "select_done"
              /\ req'[p].pc # "select_done"
              /\ req[p].conversation_id \in DOMAIN conversations
              /\ req[p].db.ok)
             => /\ ResolvedTo(p, req[p].conversation_id)
                /\ req'[p].via = "db"]_vars

\* a request has been given the conversation it named from active_conversations
C6_Witness ==
    \E p \in Server :
        /\ req[p].pc = "done"
        /\ req[p].status = 200
        /\ req[p].via = "memory"
        /\ req[p].conversation_id # NoneId
        /\ req[p].conversation.conversation_id = req[p].conversation_id
        /\ active_conversations[req[p].conversation_id].user_id = req[p].user_id

\* the persisted conversations of a user with the greatest updated_at
Latest(user_id) ==
    {id \in DOMAIN conversations :
        /\ conversations[id].user_id = user_id
        /\ \A o \in DOMAIN conversations :
               conversations[o].user_id = user_id
               => conversations[o].updated_at <= conversations[id].updated_at}

\* C7 as claimed: when _get_conversation comes to its step 3 with no id, or with
\* an id that neither active_conversations nor the store holds, and the user has
\* a persisted conversation, it returns the one most recently updated and
\* creates none.
C7_MostRecentFallback ==
    [][\A p \in Server :
          (/\ req[p].pc = "recent_db"
           /\ req'[p].pc # "recent_db"
           /\ \/ req[p].conversation_id = NoneId
              \/ /\ req[p].conversation_id \notin DOMAIN active_conversations
                 /\ req[p].conversation_id \notin DOMAIN conversations
           /\ Latest(req[p].user_id) # {})
          => /\ QueryCalled(p)
             /\ req'[p].conversation.conversation_id \in Latest(req[p].user_id)
             /\ created' = created]_vars

\* C8 as claimed, for runs in which no storage statement fails: a conversation
\* just created has an empty context, active_conversations holds it under its
\* id, and the row of that id in conversations is this conversation's.
C8_CreatedInBothStores ==
    \A p \in Server :
        (faults = 0 /\ req[p].via = "new" /\ req[p].pc \in {"llm", "update_db"})
        => LET c == req[p].conversation
           IN  /\ c.context = EmptyContext
               /\ c.user_id = req[p].user_id
               /\ c.conversation_id \in DOMAIN active_conversations
               /\ active_conversations[c.conversation_id].user_id = c.user_id
               /\ c.conversation_id \in DOMAIN conversations
               /\ conversations[c.conversation_id].user_id = c.user_id

\* C9 as claimed: no two creations yield the same conversation id.
C9_IdentsUnique ==
    \A i, j \in DOMAIN created : i # j => created[i] # created[j]

\* C10 as claimed: every row of chat_history names a conversation that has a row
\* in conversations.
C10_HistoryReferencesConversation ==
    \A i \in DOMAIN chat_history :
        chat_history[i].conversation_id \in DOMAIN conversations

\* in this step the request of p returns its ChatResponse
Responds(p) ==
    /\ req[p].pc # "done"
    /\ req'[p].pc = "done"
    /\ req'[p].status = 200

\* C11: chat_history is append-only with one row per turn: no step changes or
\* removes a row; the step in which a request returns its response (greeting,
\* cache hit, empty retrieval or composed answer) appends exactly one row, which
\* carries the conversation_id returned, the user_id, the question and the
\* response text of the request; and no other step appends a row.
C11_HistoryAppendOnly ==
    [][/\ Len(chat_history') >= Len(chat_history)
       /\ SubSeq(chat_history', 1, Len(chat_history)) = chat_history
       /\ \A p \in Procs :
            Responds(p)
            => /\ Len(chat_history') = Len(chat_history) + 1
               /\ chat_history'[Len(chat_history')].conversation_id
                      = req'[p].conversation.conversation_id
               /\ chat_history'[Len(chat_history')].user_id = req'[p].user_id
               /\ chat_history'[Len(chat_history')].question = req'[p].question
               /\ chat_history'[Len(chat_history')].response = req'[p].result.result
       /\ chat_history' # chat_history => \E p \in Procs : Responds(p)]_vars

\* a second turn, served from the cache, has returned and left the second row
C11_Witness ==
    \E p \in Procs :
        /\ req[p].pc = "done"
        /\ req[p].status = 200
        /\ req[p].cache_hit
        /\ Len(chat_history) = 2
        /\ chat_history[2].question = req[p].question
        /\ chat_history[2].response = req[p].result.result
        /\ chat_history[1].response = chat_history[2].response

\* C12: cache keys are the exact (user_id, question) pair: a call is served from
\* the cache only if an earlier call had character for character the same user_id
\* and the same question, and it is given the answer of that call.
C12_CacheKeyIsPair ==
    (call.fn = "query" /\ call.cache_hit)
    => /\ call.prev.seen
       /\ call.value = call.prev.result

\* C13: the query cache has no eviction and no TTL: no step of the handler, the
\* sweep of expired conversations and the passing of time included, removes a key
\* of query_cache; and a call of query that is a cache hit returns the entry
\* stored under its key verbatim and leaves the entry in place.
C13_CacheKeepsEntries ==
    [][/\ DOMAIN query_cache \subseteq DOMAIN query_cache'
       /\ \A p \in Procs :
            (QueryCalled(p) /\ req'[p].cache_hit)
            => /\ cache_key(req[p].user_id, req[p].question) \in DOMAIN query_cache
               /\ req'[p].result = query_cache[cache_key(req[p].user_id, req[p].question)]
               /\ query_cache' = query_cache]_vars

\* after the conversation timeout has passed, a question is answered from the
\* cache with the answer composed and returned before, sources included
C13_Witness ==
    \E p \in Procs :
        /\ req[p].pc = "done"
        /\ req[p].status = 200
        /\ req[p].cache_hit
        /\ now > conversation_timeout
        /\ req[p].result = query_cache[cache_key(req[p].user_id, req[p].question)]
        /\ req[p].result.source_documents # <<>>
        /\ Len(chat_history) = 2
        /\ chat_history[1].response = req[p].result.result

\* _retrieve_relevant_documents has returned call.value
RetrieveReturned == call.fn = "_retrieve_relevant_documents"

\* the distances of the neighbours the index returned, in its order
Distances(results) == [i \in 1..Len(results) |-> results[i].distance]

\* C14: every vector-origin document in the result of retrieve has a distance
\* strictly below 0.8 and is a neighbour the index returned with that distance,
\* so a neighbour at 0.8 or more is never returned as a vector result; and for
\* index distances [0.3, 0.85, 0.5] (three different documents, the default limit,
\* a question the lexical scan finds nothing for) the result has exactly 2
\* documents, those at 0.3 and 0.5.
C14_VectorCutoff ==
    RetrieveReturned
    => /\ \A i \in 1..Len(call.value) :
            call.value[i].type = "vector_search"
            => /\ call.value[i].distance < VectorCutoff
               /\ \E j \in 1..Len(call.index.vector_results) :
                     /\ call.index.vector_results[j].distance = call.value[i].distance
                     /\ call.index.vector_results[j].content = call.value[i].content
                     /\ call.index.vector_results[j].metadata = call.value[i].metadata
       /\ (/\ call.index.ok
           /\ call.index.vector_results
                  = <<Hit(DocStock, 30), Hit(DocTax, 85), Hit(DocBins, 50)>>
           /\ call.limit = n_results
           /\ call.question = QStock)
          => /\ Len(call.value) = 2
             /\ Distances(call.value) = <<30, 50>>

\* the index returned distances 0.3, 0.85 and 0.5 and two documents came back
C14_Witness ==
    /\ RetrieveReturned
    /\ Distances(call.index.vector_results) = <<30, 85, 50>>
    /\ call.limit = n_results
    /\ call.question = QStock
    /\ Len(call.value) = 2
    /\ \A i \in 1..2 : call.value[i].type = "vector_search"

\* the neighbours below the cutoff, and what the lexical fallback adds when they
\* are fewer than the limit
VectorProduced == VectorFilter(call.index.vector_results)

LexicalProduced ==
    IF Len(VectorProduced) < call.limit
    THEN _keyword_search(call.question, call.limit - Len(VectorProduced), call.index)
    ELSE <<>>

\* C15: the result of retrieve holds at most one entry per (content,
\* metadata.source) pair, and no document that vector search or the lexical
\* fallback produced with the pair of an entry has a smaller distance than the
\* entry: on a collision the entry with the smaller distance survives.
C15_Deduplication ==
    RetrieveReturned
    => /\ \A i, j \in 1..Len(call.value) :
            DocKey(call.value[i]) = DocKey(call.value[j]) => i = j
       /\ \A i \in 1..Len(call.value) :
            /\ \A v \in 1..Len(VectorProduced) :
                 DocKey(VectorProduced[v]) = DocKey(call.value[i])
                 => call.value[i].distance <= VectorProduced[v].distance
            /\ \A k \in 1..Len(LexicalProduced) :
                 DocKey(LexicalProduced[k]) = DocKey(call.value[i])
                 => call.value[i].distance <= LexicalProduced[k].distance

\* vector search gave a document at 0.3 and the lexical fallback the same document
\* at 0.5: the result holds it once, at 0.3
C15_Witness ==
    /\ RetrieveReturned
    /\ \E v \in 1..Len(VectorProduced) :
         /\ VectorProduced[v].content = DocW.content
         /\ VectorProduced[v].distance = 30
    /\ \E k \in 1..Len(LexicalProduced) :
         /\ LexicalProduced[k].content = DocW.content
         /\ LexicalProduced[k].distance = 50
    /\ Cardinality({i \in 1..Len(call.value) : call.value[i].content = DocW.content}) = 1
    /\ \E i \in 1..Len(call.value) :
         /\ call.value[i].content = DocW.content
         /\ call.value[i].distance = 30
         /\ call.value[i].type = "vector_search"

\* C16: for every question and limit, the sequence returned by retrieve is in
\* ascending order of distance and has at most limit entries.
C16_SortedAndTruncated ==
    RetrieveReturned
    => /\ Len(call.value) <= call.limit
       /\ \A i, j \in 1..Len(call.value) :
            i < j => call.value[i].distance <= call.value[j].distance

\* three neighbours below the cutoff came out of order for a limit of 2: the two
\* nearest are returned, nearest first
C16_Witness ==
    /\ RetrieveReturned
    /\ call.limit = 2
    /\ Distances(VectorProduced) = <<50, 60, 30>>
    /\ Distances(call.value) = <<30, 50>>

\* embed_query or collection.query raised
IndexFailed == ~call.index.ok

\* the lexical scan was run and collection.get raised
ScanFailed ==
    /\ call.index.ok
    /\ Len(VectorProduced) < call.limit
    /\ ~call.index.scan_ok

\* the merge met a document whose metadata is None
MergeFailed ==
    /\ call.index.ok
    /\ \/ \E v \in 1..Len(VectorProduced) : VectorProduced[v].metadata = NoMetadata
       \/ \E k \in 1..Len(LexicalProduced) : LexicalProduced[k].metadata = NoMetadata

\* C17 as claimed: retrieve returns, and when any internal step fails
\* (embedding, index query, lexical scan, merge) what it returns is the empty
\* sequence.
C17_EmptyOnAnyFailure ==
    (RetrieveReturned /\ (IndexFailed \/ ScanFailed \/ MergeFailed))
    => call.value = <<>>

\* C17 amended: retrieve returns on every input; when the embedding, the index
\* query or the merge fails it returns the empty sequence; when only the lexical
\* scan fails, the fallback contributes nothing and retrieve returns the vector
\* results that survived the cutoff, deduplicated, in ascending distance, cut to
\* the limit.
C17_EmptyOnIndexOrMergeFailure ==
    RetrieveReturned
    => /\ (IndexFailed \/ MergeFailed) => call.value = <<>>
       /\ (ScanFailed /\ ~MergeFailed)
          => /\ Len(call.value) = Min(call.limit,
                                      Cardinality({DocKey(VectorProduced[v]) :
                                                      v \in 1..Len(VectorProduced)}))
             /\ \A i \in 1..Len(call.value) :
                  /\ call.value[i].type = "vector_search"
                  /\ \E v \in 1..Len(VectorProduced) : VectorProduced[v] = call.value[i]

\* the lexical scan failed and the two neighbours below the cutoff were returned
C17_Witness ==
    /\ RetrieveReturned
    /\ ScanFailed
    /\ ~MergeFailed
    /\ call.question = QSlashW
    /\ Len(VectorProduced) = 2
    /\ Len(call.value) = 2

\* _generate_response has returned or raised: call.value
Composed == call.fn = "_generate_response"

\* C18: compose never raises to its caller: whatever the documents and whatever
\* the generation service answers, _generate_response returns an answer, and when
\* a step fails (the building of the source records, the generation call) the
\* answer is the structured fallback for the documents.
C18_ComposeNeverRaises ==
    Composed
    => /\ call.value # ValidationError
       /\ (~Buildable(call.docs) \/ call.http.kind \in {"request_error", "status_error"})
          => call.value = _structured_fallback_response(call.docs, call.question)

\* C19: a response of the generation service that lacks extractable text is
\* treated as a generation failure: _generate_response returns the structured
\* fallback for the documents, and no text attributed to the model.
C19_NoTextIsFailure ==
    (Composed /\ call.generations = 1 /\ call.http.kind = "no_text")
    => /\ call.value = _structured_fallback_response(call.docs, call.question)
       /\ ~Contains(call.value.result, NoTextApology)

ContainsIgnoringCase(s, phrase) ==
    \E k \in 1..(Len(s) - Len(phrase) + 1) :
        Lower(SubSeq(s, k, k + Len(phrase) - 1)) = Lower(phrase)

\* the generated text as the service returned it to _generate_response
Generated == Composed /\ call.generations = 1 /\ invoke(call.http).ok

Unusable(body) ==
    \/ body = <<>>
    \/ \E i \in 1..Len(unhelpful_phrases) : ContainsIgnoringCase(body, unhelpful_phrases[i])

\* C20: when the cleaned generated body, without the extracted follow-ups and
\* their header, is empty or contains a phrase of the unhelpful set in any case,
\* _generate_response returns the structured fallback; otherwise it returns that
\* body with one source per input document, in order.
C20_UsabilityCheck ==
    Generated =>
        LET body == cleaned_response(invoke(call.http).text)
        IN  IF Unusable(body)
            THEN call.value = _structured_fallback_response(call.docs, call.question)
            ELSE /\ call.value.result = body
                 /\ Len(call.value.source_documents) = Len(call.docs)
                 /\ \A i \in 1..Len(call.docs) :
                        /\ call.value.source_documents[i].content = call.docs[i].content
                        /\ call.value.source_documents[i].details = call.docs[i].metadata

\* an answer in which the phrase stands with a capital is discarded, with documents
C20_Witness ==
    /\ Generated
    /\ call.http = [kind |-> "text", text |-> AnswerCannot]
    /\ Len(call.docs) = 2
    /\ call.value = _structured_fallback_response(call.docs, call.question)
    /\ call.value.result # cleaned_response(AnswerCannot)

\* in this step the generation call of the request of p comes back
GenerationEnds(p) == req[p].pc = "llm" /\ req' # req

\* C21: within one request the generation service is invoked at most once: a
\* request that waits for the service has not invoked it before, and when the one
\* call fails the request goes on at once with the structured fallback for its
\* documents.
C21_NoRetry ==
    [][\A p \in Procs :
         /\ req'[p].generations <= 1
         /\ req'[p].pc = "llm" => req'[p].generations = 0
         /\ (GenerationEnds(p) /\ ~req'[p].llm_ok)
            => /\ req'[p].pc = "update_db"
               /\ req'[p].generations = 1
               /\ req'[p].result = _structured_fallback_response(req[p].relevant_docs,
                                                                 req[p].question)]_vars

\* a request answered with the fallback after its one, failed, generation call
C21_Witness ==
    \E p \in Procs :
        /\ req[p].pc = "done"
        /\ req[p].status = 200
        /\ req[p].generations = 1
        /\ ~req[p].llm_ok
        /\ req[p].result = _structured_fallback_response(req[p].relevant_docs, req[p].question)
        /\ req[p].relevant_docs # <<>>

\* in this step a statement of chat itself fails in the store
HandlerFault(p) == req[p].pc \in {"update_db", "history_db"} /\ faults' = faults + 1

\* C22: a request to POST /chat that fails inside the handler ends with HTTP 500
\* and the fixed apology as its detail, never with the text of the exception; a
\* request ends in no other way than with that or with its response.
C22_FixedApologyOnFailure ==
    [][\A p \in Procs :
         /\ req'[p].pc = "done"
            => \/ req'[p].status = 200
               \/ /\ req'[p].status = 500
                  /\ req'[p].detail = ApologyDetail
                  /\ req'[p].detail \notin {DatabaseError, ValidationErrorText}
         /\ HandlerFault(p)
            => /\ req'[p].pc = "done"
               /\ req'[p].status = 500
               /\ req'[p].detail = ApologyDetail]_vars

\* a statement of chat failed in the store after the answer was composed
C22_Witness ==
    \E p \in Procs :
        /\ req[p].pc = "done"
        /\ req[p].status = 500
        /\ req[p].detail = ApologyDetail
        /\ req[p].generations = 1
        /\ faults = 1
        /\ chat_history = <<>>
        /\ req[p].conversation.conversation_id \in DOMAIN conversations

\* chat_history holds a turn of the conversation asked for
HasHistory == \E i \in 1..Len(chat_history) :
                  chat_history[i].conversation_id = call.conversation_id

\* C23: GET /conversation/{conversation_id} answers HTTP 404 when chat_history
\* holds no turn of that conversation and when the lookup fails, and answers with
\* a messages list only for a conversation that has turns.
C23_NotFoundWhenAbsent ==
    call.fn = "get_conversation"
    => /\ (~HasHistory \/ ~call.answers) => call.value = NotFound
       /\ call.value.status_code = 200 => HasHistory

\* in this step _get_conversation resumes with the row it asked for, whose
\* context does not decode
MalformedLoaded(p) ==
    /\ req[p].pc = "select_done"
    /\ req'[p] # req[p]
    /\ req[p].db.ok
    /\ req[p].db.rows # <<>>
    /\ ~req[p].db.rows[1].context.json

\* C24: when the persisted context of the conversation asked for is malformed
\* JSON, _get_conversation still returns that conversation, with an empty
\* context, and neither goes on to another conversation nor creates one; and a
\* record of chat_history with malformed sources is returned with an empty
\* sources list.
C24_DataFaultsAsEmpty ==
    [][/\ \A p \in Procs :
            MalformedLoaded(p)
            => /\ ResolvedTo(p, req[p].conversation_id)
               /\ req'[p].conversation.context = EmptyContext
               /\ created' = created
       /\ \A id \in {StoredId} :
            ProcessedRecords(<<[conversation_id |-> id, user_id |-> Customer1,
                                question |-> QStock, response |-> AnswerStock,
                                sources |-> MalformedJson, timestamp |-> 0]>>)[1].sources
            = <<>>]_vars

\* in this step _get_conversation resumes after an INSERT INTO conversations
\* that raised: a duplicate key, or a fault of the store
InsertRaised(p) == req[p].pc = "insert_done" /\ req'[p] # req[p] /\ ~req[p].db.ok

\* C25: when the INSERT of a new conversation reports a duplicate key or fails
\* otherwise, _get_conversation does not raise and does not run the INSERT again:
\* it returns the new ConversationState of the user, with an empty context, which
\* active_conversations then holds, and the request goes on to chatbot.query.
C25_InsertFaultTolerated ==
    [][\A p \in Procs :
         InsertRaised(p)
         => /\ ResolvedTo(p, req[p].conversation.conversation_id)
            /\ req'[p].conversation.user_id = req[p].user_id
            /\ req'[p].conversation.context = EmptyContext
            /\ req'[p].pc # "insert_db"
            /\ req'[p].status = 0
            /\ conversations' = conversations]_vars

\* a request answered on a conversation whose INSERT hit the key of another user
C25_Witness ==
    \E p \in Procs :
        /\ req[p].pc = "done"
        /\ req[p].status = 200
        /\ req[p].via = "new"
        /\ ~req[p].db.ok
        /\ faults = 0
        /\ req[p].conversation.conversation_id \in DOMAIN active_conversations
        /\ active_conversations[req[p].conversation.conversation_id].user_id = req[p].user_id
        /\ conversations[req[p].conversation.conversation_id].user_id # req[p].user_id

\* the word tokens of a text, case ignored: its maximal runs of letters, digits
\* and underscores
WordChars ==
    {LowerCase[i] : i \in 1..26} \cup {"0", "1", "2", "3", "4", "5", "6", "7", "8", "9", "_"}

RECURSIVE WordsFrom(_, _)
WordsFrom(s, i) ==
    IF i > Len(s) THEN {}
    ELSE IF s[i] \in WordChars
         THEN {SubSeq(s, i, i + Run(s, i, WordChars) - 1)}
              \cup WordsFrom(s, i + Run(s, i, WordChars))
         ELSE WordsFrom(s, i + 1)

Words(text) == WordsFrom(Lower(text), 1)

\* 1 - overlap of the document with the question, in hundredths
LexicalDistance(question, doc) ==
    100 - (100 * Cardinality(Words(question) \cap Words(doc.content)))
              \div Cardinality(Words(question))

\* the positions in the collection of the documents that share a token with the
\* question
Matches(question, all) ==
    {i \in 1..Len(all) : Words(question) \cap Words(all[i].content) # {}}

\* the lexical fallback was run and the scan of the collection answered
LexicalRan ==
    /\ RetrieveReturned
    /\ call.index.ok
    /\ call.index.scan_ok
    /\ Len(VectorProduced) < call.limit

\* C26: the lexical fallback returns, of the documents of the collection that
\* share a token with the question, the min(quota, number of matches) with the
\* lowest distance 1 - overlap, in ascending order of distance, where quota is
\* limit minus the number of vector documents that passed the cutoff.
C26_LexicalSelection ==
    LexicalRan =>
        LET all == call.index.all_chroma_data
            quota == call.limit - Len(VectorProduced)
            matches == Matches(call.question, all)
            chosen == {i \in matches :
                          \E k \in 1..Len(LexicalProduced) :
                              LexicalProduced[k].content = all[i].content}
        IN  /\ Len(LexicalProduced) = Min(quota, Cardinality(matches))
            /\ \A k \in 1..Len(LexicalProduced) :
                   \E i \in matches :
                       /\ LexicalProduced[k].content = all[i].content
                       /\ LexicalProduced[k].metadata = all[i].metadata
                       /\ LexicalProduced[k].distance = LexicalDistance(call.question, all[i])
            /\ \A k \in 1..(Len(LexicalProduced) - 1) :
                   LexicalProduced[k].distance <= LexicalProduced[k + 1].distance
            /\ \A i \in chosen, j \in matches \ chosen :
                   LexicalDistance(call.question, all[i])
                   <= LexicalDistance(call.question, all[j])

\* a text in which the pattern of _extract_suggested_questions finds four list
\* lines that end in a question mark
FourListed ==
    <<"S", "u", "g", "g", "e", "s", "t", "e", "d", " ", "q", "u", "e", "s", "t", "i", "o",
      "n", "s", ":">>
    \o BackslashN \o <<"*", "\\", "A", "?">> \o BackslashN \o <<"*", "\\", "B", "?">>
    \o BackslashN \o <<"*", "\\", "C", "?">> \o BackslashN \o <<"*", "\\", "E", "?">>
    \o BackslashN

\* C27: every answer _generate_response returns, the generated one and the
\* structured fallback, carries at most 3 suggested questions; the extraction
\* itself returns at most 3 of the list lines it finds.
C27_AtMostThreeSuggestions ==
    /\ (Composed /\ call.value # ValidationError)
       => Len(call.value.suggested_questions) <= 3
    /\ Len(_extract_suggested_questions(FourListed)) <= 3

\* the structured fallback for documents, with its three suggestions
C27_Witness ==
    /\ Composed
    /\ call.generations = 1
    /\ call.docs # <<>>
    /\ call.value = _structured_fallback_response(call.docs, call.question)
    /\ Len(call.value.suggested_questions) = 3
    /\ _extract_suggested_questions(FourListed) = << <<"A", "?">>, <<"B", "?">>, <<"C", "?">> >>

\* C28: for a generated text that ends in a 'Suggested questions:' header
\* followed by list lines, the suggested questions of the answer are the list
\* lines that end in '?', without their bullet or number, in their order and at
\* most 3, and the body of the answer holds neither the header nor any of them.
C28_FollowUpsExtracted ==
    (Composed /\ call.generations = 1
              /\ call.http = [kind |-> "text", text |-> AnswerFollowUps])
    => /\ call.value.suggested_questions
              = << <<"W", "h", "y", "?">>, <<"H", "o", "w", "?">> >>
       /\ ~ContainsIgnoringCase(call.value.result,
                                <<"s", "u", "g", "g", "e", "s", "t", "e", "d", " ", "q", "u",
                                  "e", "s", "t", "i", "o", "n", "s", ":">>)
       /\ ~Contains(call.value.result, <<"W", "h", "y", "?">>)
       /\ ~Contains(call.value.result, <<"H", "o", "w", "?">>)

\* in this step the request of p runs the in-memory half of
\* _cleanup_conversations, or the store runs its UPDATE
SweepsMemory(p) == req[p].pc \in {"idle", "done"} /\ req'[p].pc = "cleanup_db"

SweepsStore(p) == req[p].pc = "cleanup_db" /\ req'[p].pc = "cleanup_done"

\* C29: _cleanup_conversations deletes no row of conversations and puts nothing
\* into active_conversations; in the table it changes only updated_at, and only
\* of the rows whose updated_at is before now - conversation_timeout, which it
\* sets to the time of the sweep; conversation_id, user_id, context and the newer
\* rows stay as they are.
C29_SweepFrame ==
    [][\A p \in Procs :
         /\ SweepsMemory(p)
            => /\ conversations' = conversations
               /\ DOMAIN active_conversations' \subseteq DOMAIN active_conversations
               /\ \A id \in DOMAIN active_conversations' :
                      active_conversations'[id] = active_conversations[id]
         /\ SweepsStore(p)
            => /\ active_conversations' = active_conversations
               /\ DOMAIN conversations' = DOMAIN conversations
               /\ \A id \in DOMAIN conversations :
                      /\ conversations'[id].user_id = conversations[id].user_id
                      /\ conversations'[id].context = conversations[id].context
                      /\ conversations'[id].created_at = conversations[id].created_at
                      /\ conversations'[id].updated_at # conversations[id].updated_at
                         => /\ conversations[id].updated_at < req[p].expiry_time
                            /\ conversations'[id].updated_at = now
                      /\ conversations[id].updated_at >= req[p].expiry_time
                         => conversations'[id] = conversations[id]]_vars

\* a sweep has refreshed the row of a conversation idle past the timeout, which
\* it has dropped from active_conversations
C29_Witness ==
    \E p \in Procs, id \in DOMAIN conversations :
        /\ req[p].pc = "cleanup_done"
        /\ conversations[id].created_at < req[p].expiry_time
        /\ conversations[id].updated_at = now
        /\ id \in swept
        /\ id \notin DOMAIN active_conversations

\* in this step chatbot.query returns to the request of p, which then runs
\* lines 95-97 of chat up to the await of the UPDATE
Touches(p) == req[p].pc # "update_db" /\ req'[p].pc = "update_db"

ComposedAnswers(question, docs, ok) ==
    {_generate_response(question, docs, invoke(http)) :
         http \in {h \in ConcurrentOutcomes : invoke(h).ok = ok}}

\* in this step the request of p comes back from its generation call
Composes(p) == req[p].pc = "llm" /\ req'[p].pc # "llm"

\* C31: with requests of one (user_id, question) interleaved at their awaits,
\* query_cache changes only in the step in which a request comes back from the
\* generation call, and then only at the key of that request, which it maps to
\* the answer this request composed (the last writer's); that answer is the whole
\* of what _generate_response returns for the question and the documents of the
\* request; a request that finds the key returns the entry as it is; the answer
\* of a request stays as it is until the request returns; and query_cache never
\* holds another key than that of the requests.
C31_SameKeyRace ==
    [][\A p \in Procs :
         LET key == cache_key(req[p].user_id, req[p].question)
         IN  /\ Composes(p)
                => /\ req'[p].result \in ComposedAnswers(req[p].question, req[p].relevant_docs,
                                                      req'[p].llm_ok)
                   /\ req'[p].result.source_documents = SourceDocuments(req[p].relevant_docs)
                   /\ req'[p].result.result # <<>>
                   /\ query_cache' = Put(query_cache, key, req'[p].result)
                   /\ \A q \in Procs \ {p} : req'[q] = req[q]
             /\ (\A q \in Procs : ~Composes(q)) => query_cache' = query_cache
             /\ (QueryCalled(p) /\ req'[p].cache_hit)
                => /\ req'[p].result = query_cache[cache_key(req'[p].user_id, req'[p].question)]
                   /\ req'[p].pc = "update_db"
                   /\ req'[p].generations = 0
             /\ DOMAIN query_cache' \subseteq {cache_key(Customer1, QStock)}
             /\ req[p].pc \in {"update_db", "history_db"} => req'[p].result = req[p].result]_vars

\* two requests with the same key both missed the cache and composed different
\* answers; query_cache holds the answer of the one that wrote last, and both
\* have returned
C31_Witness ==
    \E p, q \in Procs :
        LET key == cache_key(req[p].user_id, req[p].question)
        IN  /\ p # q
            /\ req[p].pc = "done" /\ req[p].status = 200 /\ req[p].generations = 1
            /\ req[q].pc = "done" /\ req[q].status = 200 /\ req[q].generations = 1
            /\ cache_key(req[q].user_id, req[q].question) = key
            /\ req[p].llm_ok /\ ~req[q].llm_ok
            /\ req[p].result # req[q].result
            /\ DOMAIN query_cache = {key}
            /\ query_cache[key] = req[q].result


\* C32: the conversation _get_conversation returns to a request has the user_id
\* of the request, also when the request names a conversation of another user
\* that active_conversations or the store holds; so every row of chat_history
\* names a conversation whose state, as the request held it, is of the user of
\* the row.
C32_OwnConversation ==
    [][\A p \in Server :
         /\ QueryCalled(p) => req'[p].conversation.user_id = req'[p].user_id
         /\ Responds(p) => req[p].conversation.user_id = chat_history'[Len(chat_history')].user_id]_vars


\* value is a structured fallback on a non-empty document list
IsFallback(value) ==
    /\ Len(value.result) >= Len(FallbackOpening)
    /\ Take(value.result, Len(FallbackOpening)) = FallbackOpening
    /\ value.source_documents # <<>>

\* C33: when _generate_response returns to query the structured fallback for the
\* documents of the call (the generation call failed, or its text was judged
\* unusable), query stores it in query_cache under the key of the pair; and the
\* next call of query with the same pair returns that fallback from the cache
\* and invokes neither retrieval nor generation.
C33_FallbackCached ==
    /\ [][(/\ call.fn = "query_awaits"
           /\ call'.fn = "query"
           /\ call'.value = _structured_fallback_response(call.relevant_docs, call.question))
          => /\ call.relevant_docs # <<>>
             /\ IsFallback(call'.value)
             /\ cache_key(call.user_id, call.question) \in DOMAIN query_cache'
             /\ query_cache'[cache_key(call.user_id, call.question)] = call'.value]_vars
    /\ [](/\ call.fn = "query"
          /\ call.prev.seen
          /\ call.prev.generations = 1 \/ call.prev.cache_hit
          /\ IsFallback(call.prev.result)
          => /\ call.cache_hit
             /\ call.value = call.prev.result
             /\ call.retrievals = 0
             /\ call.generations = 0
             /\ query_cache[cache_key(call.user_id, call.question)] = call.value)

\* a call of query has been served from the cache the fallback that the call
\* before it composed on two documents
C33_Witness ==
    /\ call.fn = "query"
    /\ call.cache_hit
    /\ call.prev.seen
    /\ call.prev.generations = 1
    /\ ~call.prev.cache_hit
    /\ IsFallback(call.value)
    /\ call.value = call.prev.result
    /\ Len(call.value.source_documents) = 2
    /\ call.retrievals = 0


\* a greeting keyword stands in the question as a word of its own, case ignored
HasGreetingWord(question) ==
    LET s == Lower(question)
    IN  \E g \in 1..Len(greetings) :
          \E i \in 1..Len(s) :
              /\ MatchAt(s, i, greetings[g])
              /\ i = 1 \/ s[i - 1] \notin WordChars
              /\ i + Len(greetings[g]) > Len(s) \/ s[i + Len(greetings[g])] \notin WordChars

\* C34: query answers with the fixed greeting, without a look in query_cache and
\* without retrieval, only when a greeting keyword stands in the question as a
\* separate word; a question that holds a keyword only inside a longer word
\* ('hi' in 'which') goes on to the cache look-up and to retrieval.
C34_GreetingWholeWords ==
    call.fn \in {"query", "query_awaits"}
    => /\ (call.retrievals = 0 /\ ~call.cache_hit) => HasGreetingWord(call.question)
       /\ ~HasGreetingWord(call.question) => (call.cache_hit \/ call.retrievals = 1)


\* the request of p has ended in HTTP 500
Failed(p) == req[p].pc = "done" /\ req[p].status = 500

\* C35: a request that ends in HTTP 500 has appended no row to chat_history (a
\* row is appended only in the step in which a request returns its response),
\* and the row of its conversation has the context and the updated_at it had
\* when _get_conversation returned: those of the row the request read from the
\* store, or those the request's own INSERT gave it.
C35_StateUnchangedOnError ==
    /\ [][\A p \in Server :
            /\ (req[p].status # 500 /\ req'[p].status = 500)
               => /\ chat_history' = chat_history
                  /\ conversations' = conversations
            /\ Len(chat_history') > Len(chat_history) => \E q \in Server : Responds(q)]_vars
    /\ [](\A p \in Server :
            LET cid == req[p].conversation.conversation_id
            IN  /\ (Failed(p) /\ req[p].via = "db")
                   => /\ conversations[cid].context = req[p].db.rows[1].context
                      /\ conversations[cid].updated_at = req[p].db.rows[1].updated_at
                /\ (Failed(p) /\ req[p].via = "new" /\ req[p].db.ok)
                   => /\ conversations[cid].context = json_dumps(EmptyContext)
                      /\ conversations[cid].updated_at = conversations[cid].created_at)

====
